---- MODULE Spec2Model ----
(***************************************************************************)
(* Model of the migration engine of the event-sourced datastore            *)
(* (datastore/migrations/core/migrater.py): the orchestrator `migrate`,    *)
(* the position walk of `run_actual_migrations`, the step chain of         *)
(* `migrate_position` and the diff-write of `write_new_events`.            *)
(*                                                                         *)
(* Tables are modelled by what they hold: `positions` is the list of      *)
(* migration indices of the positions 1..n, `events` the live events of    *)
(* every position in weight order, `migration_events` the staging rows     *)
(* (id, position, weight, event), `migration_positions` the checkpoint     *)
(* map, `migration_keyframes` the persisted keyframes (position,          *)
(* migration index, model set) and `models` the derived models table.      *)
(* One run of `migrate` is one `migrate` step (decision table and the     *)
(* read transaction of the walk), followed by one `position_transaction`   *)
(* step per position; the process can be killed between two of them.       *)
(* FinalizeSpec adds the finalizer, which moves the staged events into     *)
(* the live tables; DiffWriteSpec runs `write_new_events` on its own over  *)
(* arbitrary staging tables and event lists.  WriterSpec is the external   *)
(* writer applying write requests to the models table, ReserveSpec the id  *)
(* reservation of the writer.  LiveSpec is Spec over well-formed           *)
(* datastores with the fairness of an operator who reruns killed runs.     *)
(***************************************************************************)
EXTENDS Integers, Sequences, FiniteSets, TLC

\* ----- bounds ------------------------------------------------------------
MaxPositions == 3      \* rows of the positions table
MaxT == 4              \* highest target migration index, steps exist for 2..MaxT
MaxEvents == 2         \* longest event list handed to one isolated diff-write
MaxFinalizeRuns == 2    \* calls of finalize in a row
MaxRowId == 3          \* highest serial id of migration_events in the diff-write runs
MaxWrites == 3         \* positions written by the writer runs
MaxWriteEvents == 2    \* events of one write request
MaxAmount == 2         \* highest amount of one id reservation
MaxReserves == 3       \* reservation calls in a row
COLLECTION_MAX_LEN == 2  \* longest valid collection name; the writer defines the
                       \* limit outside the sources at hand, so it is scaled down

\* migration indices a positions row may carry (0 and -1 are the invalid ones)
MigrationIndices == {-1, 0, 1, 2, 3}

\* ----- values ------------------------------------------------------------
\* Python's None is the empty set, a value v is {v}.
NoValue == {}

MinOf(S) == CHOOSE x \in S : \A y \in S : x <= y
MaxOf(S) == CHOOSE x \in S : \A y \in S : x >= y

\* `x or d` of Python on an optional integer: None and 0 both give d.
OrDefault(opt, d) == IF opt = {} THEN d ELSE IF MinOf(opt) = 0 THEN d ELSE MinOf(opt)

\* ----- events ------------------------------------------------------------
Ev(type, collection, id, data) ==
    [type |-> type, fqid |-> <<collection, id>>, data |-> data]

\* The event log the writer produced, one entry per position, each in weight
\* order (the log of test_move_id with small values).
SampleLog ==
    << << Ev("create", "a", 1, {<<"f", 1>>}) >>,
       << Ev("update", "a", 1, {<<"f", 2>>}), Ev("create", "a", 2, {<<"f", 42>>}) >>,
       << Ev("delete", "a", 1, {}) >>,
       << Ev("restore", "a", 1, {}) >> >>

EventsOfPosition(p) == SampleLog[((p - 1) % Len(SampleLog)) + 1]

\* ----- migration steps ---------------------------------------------------
\* The kinds of steps a chain is built from.  MoveId is the step of
\* test_move_id and AddEvent the one of test_create_additional_model (an
\* extra Create next to a Create); PassThrough returns null for every event,
\* DropUpdate returns the empty list for updates, DropModel the empty list
\* for every event of a/1 (so that a position can end with no event at all)
\* and RaiseOnDelete raises on the first Delete it is given.
StepKinds ==
    {"PassThrough", "MoveId", "DropUpdate", "DropModel", "AddEvent", "RaiseOnDelete"}

\* migrate_event of a step: null (pass through), a list, or an error.
Null == [tag |-> "null", events |-> << >>]
List(es) == [tag |-> "list", events |-> es]
Raise == [tag |-> "raise", events |-> << >>]

\* variant: MoveId moves the id by two
migrate_event_by_two(kind, event) ==
    CASE kind = "PassThrough" -> Null
      [] kind = "MoveId" ->
            List(<< [event EXCEPT !.fqid = <<event.fqid[1], event.fqid[2] + 2>>] >>)
      [] kind = "DropUpdate" ->
            IF event.type = "update" THEN List(<< >>) ELSE Null
      [] kind = "DropModel" ->
            IF event.fqid = <<"a", 1>> THEN List(<< >>) ELSE Null
      [] kind = "AddEvent" ->
            IF event.type = "create" /\ event.fqid[1] = "a"
            THEN List(<< event, Ev("create", "b", event.fqid[2], {}) >>)
            ELSE Null
      [] kind = "RaiseOnDelete" ->
            IF event.type = "delete" THEN Raise ELSE Null

migrate_event(kind, event) ==
    CASE kind = "PassThrough" -> Null
      [] kind = "MoveId" ->
            List(<< [event EXCEPT !.fqid = <<event.fqid[1], event.fqid[2] + 1>>] >>)
      [] kind = "DropUpdate" ->
            IF event.type = "update" THEN List(<< >>) ELSE Null
      [] kind = "DropModel" ->
            IF event.fqid = <<"a", 1>> THEN List(<< >>) ELSE Null
      [] kind = "AddEvent" ->
            IF event.type = "create" /\ event.fqid[1] = "a"
            THEN List(<< event, Ev("create", "b", event.fqid[2], {}) >>)
            ELSE Null
      [] kind = "RaiseOnDelete" ->
            IF event.type = "delete" THEN Raise ELSE Null

\* The default migrate of a step: the concatenation of the per-event results
\* in weight order; an error of any event is the error of the step.
RECURSIVE BaseMigration_migrate(_, _)
BaseMigration_migrate(kind, old_events) ==
    IF old_events = << >> THEN List(<< >>)
    ELSE LET r == migrate_event(kind, Head(old_events))
             rest == BaseMigration_migrate(kind, Tail(old_events))
         IN IF r.tag = "raise" \/ rest.tag = "raise" THEN Raise
            ELSE IF r.tag = "null" THEN List(<< Head(old_events) >> \o rest.events)
            ELSE List(r.events \o rest.events)

\* ----- staging rows ------------------------------------------------------
RowsAt(rows, position) == {r \in rows : r.position = position}

\* the rows of a position in ascending weight
RECURSIVE ByWeight(_)
ByWeight(rows) ==
    IF rows = {} THEN << >>
    ELSE LET r == CHOOSE x \in rows : \A y \in rows : x.weight <= y.weight
         IN << r >> \o ByWeight(rows \ {r})

\* "select ... from migration_events where position=%s order by weight asc"
StagedEvents(rows, position) ==
    LET s == ByWeight(RowsAt(rows, position)) IN [i \in 1..Len(s) |-> s[i].event]

\* the ids of a set in ascending order
RECURSIVE Ascending(_)
Ascending(ids) ==
    IF ids = {} THEN << >>
    ELSE << MinOf(ids) >> \o Ascending(ids \ {MinOf(ids)})

SeqRange(s) == {s[i] : i \in 1..Len(s)}

Reverse(s) == [i \in 1..Len(s) |-> s[Len(s) + 1 - i]]

\* "select id from migration_events where position=%s" has no ORDER BY: the
\* rows come back in an order the database chooses.  `order` is that choice
\* for the rows the transaction found; rows it inserted itself follow.  The
\* walk takes the two extreme choices, insertion order and its reverse.
OrdersOf(ids) == {Ascending(ids), Reverse(Ascending(ids))}

RECURSIVE Restrict(_, _)
Restrict(order, ids) ==
    IF order = << >> THEN << >>
    ELSE IF Head(order) \in ids THEN << Head(order) >> \o Restrict(Tail(order), ids)
    ELSE Restrict(Tail(order), ids)

old_event_ids_query(rows, position, order) ==
    LET ids == {r.id : r \in RowsAt(rows, position)}
    IN Restrict(order, ids) \o Ascending(ids \ SeqRange(order))

Min2(a, b) == IF a <= b THEN a ELSE b

\* variant: the surplus rows are not deleted
write_new_events_keep_surplus(rows, nid, new_events, position, old_event_ids) ==
    LET nold == Len(old_event_ids)
        nnew == Len(new_events)
        n == Min2(nold, nnew)
        IndexOf(id) == CHOOSE i \in 1..nold : old_event_ids[i] = id
        updated == {IF r.position = position /\ r.id \in SeqRange(old_event_ids)
                       /\ IndexOf(r.id) <= n
                    THEN [r EXCEPT !.event = new_events[IndexOf(r.id)],
                                   !.weight = IndexOf(r.id)]
                    ELSE r : r \in rows}
        inserted == IF nnew > nold
                    THEN {[id |-> nid + (i - nold) - 1, position |-> position,
                           weight |-> i, event |-> new_events[i]] : i \in (nold + 1)..nnew}
                    ELSE {}
    IN [rows |-> updated \cup inserted,
        nid |-> IF nnew > nold THEN nid + (nnew - nold) ELSE nid]

\* variant: an early return when there is no new event
write_new_events_skip_empty(rows, nid, new_events, position, old_event_ids) ==
    IF new_events = << >> THEN [rows |-> rows, nid |-> nid]
    ELSE write_new_events_keep_surplus(rows, nid, new_events, position, old_event_ids)

\* write_new_events: overwrite, delete the surplus, insert the tail.
write_new_events(rows, nid, new_events, position, old_event_ids) ==
    LET nold == Len(old_event_ids)
        nnew == Len(new_events)
        n == Min2(nold, nnew)
        IndexOf(id) == CHOOSE i \in 1..nold : old_event_ids[i] = id
        updated == {IF r.position = position /\ r.id \in SeqRange(old_event_ids)
                       /\ IndexOf(r.id) <= n
                    THEN [r EXCEPT !.event = new_events[IndexOf(r.id)],
                                   !.weight = IndexOf(r.id)]
                    ELSE r : r \in rows}
        deleted == IF nold > nnew
                   THEN {old_event_ids[i] : i \in (nnew + 1)..nold}
                   ELSE {}
        kept == {r \in updated : r.id \notin deleted}
        inserted == IF nnew > nold
                    THEN {[id |-> nid + (i - nold) - 1, position |-> position,
                           weight |-> i, event |-> new_events[i]] : i \in (nold + 1)..nnew}
                    ELSE {}
    IN [rows |-> kept \cup inserted,
        nid |-> IF nnew > nold THEN nid + (nnew - nold) ELSE nid]


\* The statements of write_new_events one by one: the staging table after
\* each update, after the delete and after each insert.
update_statement(rows, id, event, weight) ==
    {IF r.id = id THEN [r EXCEPT !.event = event, !.weight = weight] ELSE r : r \in rows}

delete_statement(rows, ids) == {r \in rows : r.id \notin ids}

insert_statement(rows, id, position, event, weight) ==
    rows \cup {[id |-> id, position |-> position, weight |-> weight, event |-> event]}

write_new_events_statements(rows, nid, new_events, position, old_event_ids) ==
    LET nold == Len(old_event_ids)
        nnew == Len(new_events)
        n == Min2(nold, nnew)
        total == IF nold > nnew THEN n + 1 ELSE nnew
        after[k \in 0..total] ==
            IF k = 0 THEN rows
            ELSE IF k <= n
                 THEN update_statement(after[k - 1], old_event_ids[k], new_events[k], k)
            ELSE IF nold > nnew
                 THEN delete_statement(after[k - 1],
                                       {old_event_ids[i] : i \in (nnew + 1)..nold})
            ELSE insert_statement(after[k - 1], nid + (k - nold) - 1, position,
                                  new_events[k], k)
    IN [k \in 1..total |-> after[k]]

\* ----- models -------------------------------------------------------------
\* A model set holds one record per fqid: the field map as a set of
\* (field, value) pairs and the two reserved fields.
Model(fqid, fields, meta_deleted, meta_position) ==
    [fqid |-> fqid, fields |-> fields, meta_deleted |-> meta_deleted,
     meta_position |-> meta_position]

\* the model exists and is not soft-deleted
exists_query(models, fqid) == \E m \in models : m.fqid = fqid /\ ~m.meta_deleted

\* the model is soft-deleted
is_deleted(models, fqid) == \E m \in models : m.fqid = fqid /\ m.meta_deleted

\* field-wise merge of an update
update_model(fields, data) ==
    {x \in fields : \A y \in data : y[1] # x[1]} \cup data

\* DeleteFields: the listed fields are unset
delete_fields(fields, names) == {x \in fields : x[1] \notin names}

\* ListUpdate: set-union of `add` and set-difference of `remove` on
\* array-valued fields.  An array-valued field holds one (field, element)
\* pair per element; a missing field is the empty array.
list_update(fields, add, remove) == (fields \cup add) \ remove

\* variant: an Update is accepted on a soft-deleted model
apply_event_update_deleted(models, event, position) ==
    LET fqid == event.fqid
        others == {m \in models : m.fqid # fqid}
        old == CHOOSE m \in models : m.fqid = fqid
        Ok(m) == [err |-> "ok", models |-> others \cup {m}]
        Fail(e) == [err |-> e, models |-> models]
    IN CASE event.type = "create" ->
              IF exists_query(models, fqid) THEN Fail("ModelExists")
              ELSE Ok(Model(fqid, event.data, FALSE, position))
         [] event.type = "update" ->
              IF ~exists_query(models, fqid) /\ ~is_deleted(models, fqid)
              THEN Fail("ModelDoesNotExist")
              ELSE Ok(Model(fqid, update_model(old.fields, event.data), FALSE, position))
         [] event.type = "deletefields" ->
              IF ~exists_query(models, fqid) THEN Fail("ModelDoesNotExist")
              ELSE Ok(Model(fqid, delete_fields(old.fields, event.fields), FALSE, position))
         [] event.type = "listupdate" ->
              IF ~exists_query(models, fqid) THEN Fail("ModelDoesNotExist")
              ELSE Ok(Model(fqid, list_update(old.fields, event.add, event.remove),
                            FALSE, position))
         [] event.type = "delete" ->
              IF ~exists_query(models, fqid) THEN Fail("ModelDoesNotExist")
              ELSE Ok(Model(fqid, old.fields, TRUE, position))
         [] event.type = "restore" ->
              IF ~is_deleted(models, fqid) THEN Fail("ModelNotDeleted")
              ELSE Ok(Model(fqid, old.fields, FALSE, position))

\* variant: an event that changes no field leaves meta_position alone
apply_event_keep_position(models, event, position) ==
    LET fqid == event.fqid
        others == {m \in models : m.fqid # fqid}
        old == CHOOSE m \in models : m.fqid = fqid
        Ok(m) == [err |-> "ok",
                  models |-> others \cup
                      {IF exists_query(models, fqid) /\ m.fields = old.fields
                          /\ m.meta_deleted = old.meta_deleted
                       THEN old ELSE m}]
        Fail(e) == [err |-> e, models |-> models]
    IN CASE event.type = "create" ->
              IF exists_query(models, fqid) THEN Fail("ModelExists")
              ELSE Ok(Model(fqid, event.data, FALSE, position))
         [] event.type = "update" ->
              IF ~exists_query(models, fqid) THEN Fail("ModelDoesNotExist")
              ELSE Ok(Model(fqid, update_model(old.fields, event.data), FALSE, position))
         [] event.type = "deletefields" ->
              IF ~exists_query(models, fqid) THEN Fail("ModelDoesNotExist")
              ELSE Ok(Model(fqid, delete_fields(old.fields, event.fields), FALSE, position))
         [] event.type = "listupdate" ->
              IF ~exists_query(models, fqid) THEN Fail("ModelDoesNotExist")
              ELSE Ok(Model(fqid, list_update(old.fields, event.add, event.remove),
                            FALSE, position))
         [] event.type = "delete" ->
              IF ~exists_query(models, fqid) THEN Fail("ModelDoesNotExist")
              ELSE Ok(Model(fqid, old.fields, TRUE, position))
         [] event.type = "restore" ->
              IF ~is_deleted(models, fqid) THEN Fail("ModelNotDeleted")
              ELSE Ok(Model(fqid, old.fields, FALSE, position))

\* variant: a Delete drops the fields of the model
apply_event_delete_clears(models, event, position) ==
    LET fqid == event.fqid
        others == {m \in models : m.fqid # fqid}
        old == CHOOSE m \in models : m.fqid = fqid
        Ok(m) == [err |-> "ok", models |-> others \cup {m}]
        Fail(e) == [err |-> e, models |-> models]
    IN CASE event.type = "create" ->
              IF exists_query(models, fqid) THEN Fail("ModelExists")
              ELSE Ok(Model(fqid, event.data, FALSE, position))
         [] event.type = "update" ->
              IF ~exists_query(models, fqid) THEN Fail("ModelDoesNotExist")
              ELSE Ok(Model(fqid, update_model(old.fields, event.data), FALSE, position))
         [] event.type = "deletefields" ->
              IF ~exists_query(models, fqid) THEN Fail("ModelDoesNotExist")
              ELSE Ok(Model(fqid, delete_fields(old.fields, event.fields), FALSE, position))
         [] event.type = "listupdate" ->
              IF ~exists_query(models, fqid) THEN Fail("ModelDoesNotExist")
              ELSE Ok(Model(fqid, list_update(old.fields, event.add, event.remove),
                            FALSE, position))
         [] event.type = "delete" ->
              IF ~exists_query(models, fqid) THEN Fail("ModelDoesNotExist")
              ELSE Ok(Model(fqid, {}, TRUE, position))
         [] event.type = "restore" ->
              IF ~is_deleted(models, fqid) THEN Fail("ModelNotDeleted")
              ELSE Ok(Model(fqid, old.fields, FALSE, position))

\* apply(event, model): the model set after one event of the given position,
\* or the error of the event.
apply_event(models, event, position) ==
    LET fqid == event.fqid
        others == {m \in models : m.fqid # fqid}
        old == CHOOSE m \in models : m.fqid = fqid
        Ok(m) == [err |-> "ok", models |-> others \cup {m}]
        Fail(e) == [err |-> e, models |-> models]
    IN CASE event.type = "create" ->
              IF exists_query(models, fqid) THEN Fail("ModelExists")
              ELSE Ok(Model(fqid, event.data, FALSE, position))
         [] event.type = "update" ->
              IF ~exists_query(models, fqid) THEN Fail("ModelDoesNotExist")
              ELSE Ok(Model(fqid, update_model(old.fields, event.data), FALSE, position))
         [] event.type = "deletefields" ->
              IF ~exists_query(models, fqid) THEN Fail("ModelDoesNotExist")
              ELSE Ok(Model(fqid, delete_fields(old.fields, event.fields), FALSE, position))
         [] event.type = "listupdate" ->
              IF ~exists_query(models, fqid) THEN Fail("ModelDoesNotExist")
              ELSE Ok(Model(fqid, list_update(old.fields, event.add, event.remove),
                            FALSE, position))
         [] event.type = "delete" ->
              IF ~exists_query(models, fqid) THEN Fail("ModelDoesNotExist")
              ELSE Ok(Model(fqid, old.fields, TRUE, position))
         [] event.type = "restore" ->
              IF ~is_deleted(models, fqid) THEN Fail("ModelNotDeleted")
              ELSE Ok(Model(fqid, old.fields, FALSE, position))

\* the events of one position applied in weight order
RECURSIVE apply_events(_, _, _)
apply_events(models, evs, position) ==
    IF evs = << >> THEN [err |-> "ok", models |-> models]
    ELSE LET r == apply_event(models, Head(evs), position)
         IN IF r.err # "ok" THEN r
            ELSE apply_events(r.models, Tail(evs), position)

\* replay of the positions from..to of a log (position -> event list)
RECURSIVE replay(_, _, _, _)
replay(models, log, from, to) ==
    IF from > to THEN [err |-> "ok", models |-> models]
    ELSE LET r == apply_events(models, log[from], from)
         IN IF r.err # "ok" THEN r
            ELSE replay(r.models, log, from + 1, to)

\* the derived models table of a log
build_models(log) == replay({}, log, 1, Len(log))

\* ----- keyframe accessors -------------------------------------------------
\* An accessor is bound to (last_position, migration_index, position); its
\* model view is filled when it is first used.
Accessor(flavor, last_position, migration_index, position, persistent) ==
    [flavor |-> flavor, last_position |-> last_position,
     migration_index |-> migration_index, position |-> position,
     persistent |-> persistent, models |-> {}]

\* the keyframe persisted for (position, migration_index), if any
keyframe_at(kf, position, migration_index) ==
    {k \in kf : k.position = position /\ k.migration_index = migration_index}

\* kf with the keyframe (position, migration_index) set to the model set
write_keyframe(kf, position, migration_index, models) ==
    (kf \ keyframe_at(kf, position, migration_index))
        \cup {[position |-> position, migration_index |-> migration_index,
               models |-> models]}

\* The starting model set of an accessor.  Initial: empty.  Database: the
\* keyframe at (last_position, migration_index) when there is one, else the
\* replay from the nearest earlier keyframe of that index over the staged
\* events of the positions that have a checkpoint and the live events of the
\* others, which is then persisted.
load_accessor(accessor, kf, rows, mp, live) ==
    LET here == keyframe_at(kf, accessor.last_position, accessor.migration_index)
        earlier == {k \in kf : /\ k.migration_index = accessor.migration_index
                                /\ k.position < accessor.last_position}
        log == [q \in 1..accessor.last_position |->
                   IF q \in DOMAIN mp THEN StagedEvents(rows, q) ELSE live[q]]
        Nearest(found) ==
            IF found = {}
            THEN [position |-> 0, models |-> {}]
            ELSE CHOOSE k \in found : \A j \in found : j.position <= k.position
        Replay(base) == replay(base.models, log, base.position + 1, accessor.last_position)
        Loaded(replayed) ==
            IF replayed.err # "ok"
            THEN [err |-> replayed.err, accessor |-> accessor, kf |-> kf]
            ELSE [err |-> "ok",
                  accessor |-> [accessor EXCEPT !.models = replayed.models],
                  kf |-> write_keyframe(kf, accessor.last_position,
                                        accessor.migration_index, replayed.models)]
    IN IF accessor.flavor = "Initial"
       THEN [err |-> "ok", accessor |-> accessor, kf |-> kf]
       ELSE IF here # {}
       THEN [err |-> "ok", kf |-> kf,
             accessor |-> [accessor EXCEPT !.models = (CHOOSE k \in here : TRUE).models]]
       ELSE Loaded(Replay(Nearest(earlier)))

\* variant: an event whose rewriter returns null is dropped
RECURSIVE migrate_with_accessors_null_drops(_, _, _, _)
migrate_with_accessors_null_drops(kind, old_events, old_accessor, new_accessor) ==
    IF old_events = << >>
    THEN [err |-> "ok", events |-> << >>, old |-> old_accessor, new |-> new_accessor]
    ELSE LET event == Head(old_events)
             r == migrate_event(kind, event)
             produced == r.events
             o == apply_event(old_accessor.models, event, old_accessor.position)
             n == apply_events(new_accessor.models, produced, new_accessor.position)
             Fail(e) == [err |-> e, events |-> << >>, old |-> old_accessor,
                         new |-> new_accessor]
         IN IF r.tag = "raise" THEN Fail("StepError")
            ELSE IF o.err # "ok" THEN Fail(o.err)
            ELSE IF n.err # "ok" THEN Fail(n.err)
            ELSE LET rest == migrate_with_accessors_null_drops(kind, Tail(old_events),
                                 [old_accessor EXCEPT !.models = o.models],
                                 [new_accessor EXCEPT !.models = n.models])
                 IN IF rest.err # "ok" THEN rest
                    ELSE [rest EXCEPT !.events = produced \o @]

\* The default migrate of a step with its two accessors: every original
\* event is applied to the old accessor and every produced event to the new
\* one, in order.
RECURSIVE migrate_with_accessors(_, _, _, _)
migrate_with_accessors(kind, old_events, old_accessor, new_accessor) ==
    IF old_events = << >>
    THEN [err |-> "ok", events |-> << >>, old |-> old_accessor, new |-> new_accessor]
    ELSE LET event == Head(old_events)
             r == migrate_event(kind, event)
             produced == IF r.tag = "null" THEN << event >> ELSE r.events
             o == apply_event(old_accessor.models, event, old_accessor.position)
             n == apply_events(new_accessor.models, produced, new_accessor.position)
             Fail(e) == [err |-> e, events |-> << >>, old |-> old_accessor,
                         new |-> new_accessor]
         IN IF r.tag = "raise" THEN Fail("StepError")
            ELSE IF o.err # "ok" THEN Fail(o.err)
            ELSE IF n.err # "ok" THEN Fail(n.err)
            ELSE LET rest == migrate_with_accessors(kind, Tail(old_events),
                                 [old_accessor EXCEPT !.models = o.models],
                                 [new_accessor EXCEPT !.models = n.models])
                 IN IF rest.err # "ok" THEN rest
                    ELSE [rest EXCEPT !.events = produced \o @]

\* variant: the accessors are bound to the current position as last_position
get_accessors_at_position(last_position_value, source_migration_index, target_index, position, is_last_migration_index) ==
    IF last_position_value = 0
    THEN << Accessor("Initial", last_position_value, source_migration_index, position, TRUE),
            Accessor("Initial", last_position_value, target_index, position, TRUE) >>
    ELSE << Accessor("Database", position, source_migration_index, position, TRUE),
            Accessor("Database", position, target_index, position,
                     is_last_migration_index) >>

get_accessors(last_position_value, source_migration_index, target_index, position, is_last_migration_index) ==
    IF last_position_value = 0
    THEN << Accessor("Initial", last_position_value, source_migration_index, position, TRUE),
            Accessor("Initial", last_position_value, target_index, position, TRUE) >>
    ELSE << Accessor("Database", last_position_value, source_migration_index, position, TRUE),
            Accessor("Database", last_position_value, target_index, position,
                     is_last_migration_index) >>

\* move_to_next_position: the accessor's view becomes the keyframe at
\* (current position, migration index).
move_to_next_position(kf, accessor) ==
    write_keyframe(kf, accessor.position, accessor.migration_index, accessor.models)

\* variant: the new accessor is never moved
advance_accessors_old_only(kf, old_accessor, new_accessor, is_last_migration_index) ==
    [kf |-> move_to_next_position(kf, old_accessor), moves |-> << "old" >>]

\* variant: the new accessor is moved after every step
advance_accessors_always(kf, old_accessor, new_accessor, is_last_migration_index) ==
    [kf |-> move_to_next_position(move_to_next_position(kf, old_accessor), new_accessor),
     moves |-> << "old", "new" >>]

\* The end of one step: old_accessor.move_to_next_position(), and
\* new_accessor.move_to_next_position() when the position is fully migrated.
\* `moves` lists the calls in order.
advance_accessors(kf, old_accessor, new_accessor, is_last_migration_index) ==
    IF is_last_migration_index
    THEN [kf |-> move_to_next_position(move_to_next_position(kf, old_accessor),
                                       new_accessor),
          moves |-> << "old", "new" >>]
    ELSE [kf |-> move_to_next_position(kf, old_accessor), moves |-> << "old" >>]

\* variant: every step reads the live events
old_events_query_live(rows, live, position, events_from_migration_table) ==
    live[position]

\* "select id, fqid, type, data from migration_events where position=%s
\* order by weight asc", or the same on events
old_events_query(rows, live, position, events_from_migration_table) ==
    IF events_from_migration_table
    THEN StagedEvents(rows, position)
    ELSE live[position]

\* ----- one position -------------------------------------------------------
\* The loop of migrate_position over range(migration_index, T).  `st` is the
\* state of the open transaction: rows, nid, kf, and the log of the steps
\* invoked so far.  Every invoked step leaves a record in `views`: where its
\* events came from, what it returned, how its accessors were bound and
\* filled, and which of them were moved.
RECURSIVE StepChain(_, _, _, _, _, _, _, _)
StepChain(st, source_migration_index, T, events_from_migration_table, position, last_position_value, steps, live) ==
    IF source_migration_index >= T THEN [st EXCEPT !.err = "ok"]
    ELSE
      LET target_index == source_migration_index + 1
          is_last_migration_index == (target_index = T)
          accessors == get_accessors(last_position_value, source_migration_index,
                                     target_index, position, is_last_migration_index)
          log == Append(st.invoked, << position, target_index >>)
          \* self.write_new_events and the two move_to_next_position
          Written(res, w, moved, view) ==
              StepChain([st EXCEPT !.rows = w.rows, !.nid = w.nid,
                                   !.kf = moved.kf,
                                   !.invoked = log,
                                   !.views = Append(st.views,
                                       [view EXCEPT !.new_events = res.events,
                                                    !.moves = moved.moves,
                                                    !.ok = TRUE])],
                        target_index, T, TRUE,
                        position, last_position_value, steps, live)
          \* the outcome of migration.migrate
          Migrated(res, kf, view) ==
              IF res.err # "ok"
              THEN [st EXCEPT !.err = res.err, !.invoked = log,
                              !.views = Append(st.views, view)]
              ELSE Written(res,
                           write_new_events(st.rows, st.nid, res.events, position,
                               old_event_ids_query(st.rows, position, st.order)),
                           advance_accessors(kf, res.old, res.new,
                                             is_last_migration_index),
                           view)
          \* both accessors hold their views
          Loaded(old_loaded, new_loaded, old_events) ==
              IF old_loaded.err # "ok" THEN [st EXCEPT !.err = old_loaded.err]
              ELSE IF new_loaded.err # "ok" THEN [st EXCEPT !.err = new_loaded.err]
              ELSE Migrated(migrate_with_accessors(steps[target_index], old_events,
                                old_loaded.accessor, new_loaded.accessor),
                            new_loaded.kf,
                            [position |-> position,
                             source_migration_index |-> source_migration_index,
                             target_migration_index |-> target_index,
                             old |-> old_loaded.accessor.models,
                             new |-> new_loaded.accessor.models,
                             old_accessor |-> accessors[1],
                             new_accessor |-> accessors[2],
                             from_staging |-> events_from_migration_table,
                             old_events |-> old_events,
                             new_events |-> << >>,
                             moves |-> << >>,
                             ok |-> FALSE])
          OldLoaded(old_loaded) ==
              Loaded(old_loaded,
                     load_accessor(accessors[2], old_loaded.kf, st.rows, st.mp, live),
                     old_events_query(st.rows, live, position,
                                      events_from_migration_table))
      IN IF target_index \notin DOMAIN steps THEN [st EXCEPT !.err = "KeyError"]
         ELSE OldLoaded(load_accessor(accessors[1], st.kf, st.rows, st.mp, live))

\* variant: the checkpoint records the index before the last step
Upsert_one_short(mp, position, index) ==
    [p \in (DOMAIN mp) \cup {position} |-> IF p = position THEN index - 1 ELSE mp[p]]

\* variant: "on conflict(position) do nothing"
Upsert_do_nothing(mp, position, index) ==
    [p \in (DOMAIN mp) \cup {position} |-> IF p \in DOMAIN mp THEN mp[p] ELSE index]

\* "insert into migration_positions ... on conflict(position) do update"
Upsert(mp, position, index) ==
    [p \in (DOMAIN mp) \cup {position} |-> IF p = position THEN index ELSE mp[p]]

\* migrate_position: db is the database at the start of the transaction.
migrate_position(db, position, last_position_value, T, steps, live, order) ==
    LET has_entry == position.position \in DOMAIN db.mp
        migration_index == IF has_entry THEN db.mp[position.position]
                           ELSE position.migration_index
        st0 == [rows |-> db.rows, nid |-> db.nid, kf |-> db.kf, mp |-> db.mp,
                invoked |-> << >>, views |-> << >>, order |-> order, err |-> "ok"]
        Outcome(st) ==
            [err |-> st.err, rows |-> st.rows, nid |-> st.nid, kf |-> st.kf,
             invoked |-> st.invoked, views |-> st.views,
             mp |-> IF st.err = "ok" THEN Upsert(db.mp, position.position, T) ELSE db.mp]
    IN Outcome(StepChain(st0, migration_index, T, has_entry, position.position,
                         last_position_value, steps, live))


\* ----- the walk of run_actual_migrations ---------------------------------
RawPosition(pos, p) == [position |-> p, migration_index |-> pos[p]]

\* "select min(position) from positions where migration_index<%s"
min_position_1(pos, T) ==
    LET c == {p \in 1..Len(pos) : pos[p] < T}
    IN IF c = {} THEN NoValue ELSE {MinOf(c)}

\* "select min(position) from migration_positions where migration_index<%s",
\* and when that is None "select min(position) from positions where
\* position > (select max(position) from migration_positions)"
min_position_2(pos, mp, T) ==
    LET c == {p \in DOMAIN mp : mp[p] < T}
        d == IF DOMAIN mp = {} THEN {}
             ELSE {p \in 1..Len(pos) : p > MaxOf(DOMAIN mp)}
    IN IF c # {} THEN {MinOf(c)}
       ELSE IF d = {} THEN NoValue ELSE {MinOf(d)}

\* variant: min() in place of max()
min_position_min(pos, mp, T) ==
    LET m1 == min_position_1(pos, T)
        m2 == min_position_2(pos, mp, T)
    IN IF m2 # NoValue
       THEN IF m1 = NoValue THEN [err |-> "TypeError", value |-> NoValue]
            ELSE [err |-> "ok", value |-> {MinOf(m1 \cup m2)}]
       ELSE [err |-> "ok", value |-> m1]

\* variant: the lowest position whose checkpoint, or else own index, is below T
min_position_lowest_needing_work(pos, mp, T) ==
    LET needing == {p \in 1..Len(pos) : (IF p \in DOMAIN mp THEN mp[p] ELSE pos[p]) < T}
    IN [err |-> "ok", value |-> IF needing = {} THEN NoValue ELSE {MinOf(needing)}]

\* min_position of the run; max() of None and a number is Python's TypeError.
min_position(pos, mp, T) ==
    LET m1 == min_position_1(pos, T)
        m2 == min_position_2(pos, mp, T)
    IN IF m2 # NoValue
       THEN IF m1 = NoValue THEN [err |-> "TypeError", value |-> NoValue]
            ELSE [err |-> "ok", value |-> {MaxOf(m1 \cup m2)}]
       ELSE [err |-> "ok", value |-> m1]

\* variant: "order by position desc"
positions_query_desc(pos, start) ==
    IF start = NoValue THEN << >>
    ELSE LET first == MinOf(start)
         IN [i \in 1..(IF Len(pos) >= first THEN Len(pos) - first + 1 ELSE 0)
                |-> RawPosition(pos, Len(pos) - i + 1)]

\* "select * from positions where position >= %s order by position asc"
positions_query(pos, start) ==
    IF start = NoValue THEN << >>
    ELSE LET first == MinOf(start)
         IN [i \in 1..(IF Len(pos) >= first THEN Len(pos) - first + 1 ELSE 0)
                |-> RawPosition(pos, first + i - 1)]

\* "select * from positions where position < %s order by position desc limit 1"
last_position_query(pos, start) ==
    IF start = NoValue THEN NoValue
    ELSE LET c == {p \in 1..Len(pos) : p < MinOf(start)}
         IN IF c = {} THEN NoValue ELSE {RawPosition(pos, MaxOf(c))}

\* variant: no sanity check
loop_body_unchecked(db, position, anchor, T, steps, live, order) ==
    migrate_position(db, position,
                     IF anchor = NoValue THEN 0 ELSE (CHOOSE a \in anchor : TRUE).position,
                     T, steps, live, order)

\* variant: the sanity check reads the anchor's position, not its index
loop_body_wrong_field(db, position, anchor, T, steps, live, order) ==
    LET last_position_value == IF anchor = NoValue THEN 0
                               ELSE (CHOOSE a \in anchor : TRUE).position
    IN IF anchor # NoValue
          /\ position.migration_index > (CHOOSE a \in anchor : TRUE).position
       THEN [err |-> "MismatchingMigrationIndices", rows |-> db.rows, nid |-> db.nid,
             kf |-> db.kf, mp |-> db.mp, invoked |-> << >>, views |-> << >>]
       ELSE migrate_position(db, position, last_position_value, T, steps, live, order)

\* One iteration of the loop over the positions: the sanity check and
\* migrate_position, in one transaction.
loop_body(db, position, anchor, T, steps, live, order) ==
    LET last_position_value == IF anchor = NoValue THEN 0
                               ELSE (CHOOSE a \in anchor : TRUE).position
    IN IF anchor # NoValue
          /\ position.migration_index > (CHOOSE a \in anchor : TRUE).migration_index
       THEN [err |-> "MismatchingMigrationIndices", rows |-> db.rows, nid |-> db.nid,
             kf |-> db.kf, mp |-> db.mp, invoked |-> << >>, views |-> << >>]
       ELSE migrate_position(db, position, last_position_value, T, steps, live, order)

\* ----- the decision table of migrate --------------------------------------
\* variant: max(migration_index) in place of min(migration_index)
min_mi_positions_max(pos) ==
    OrDefault(IF Len(pos) = 0 THEN NoValue ELSE {MaxOf({pos[p] : p \in 1..Len(pos)})}, 1)

min_mi_positions(pos) ==
    OrDefault(IF Len(pos) = 0 THEN NoValue ELSE {MinOf({pos[p] : p \in 1..Len(pos)})}, 1)

count_positions(pos) == Len(pos)

min_mi_migration_positions(mp) ==
    OrDefault(IF DOMAIN mp = {} THEN NoValue ELSE {MinOf({mp[p] : p \in DOMAIN mp})}, 1)

count_migration_positions(mp) == Cardinality(DOMAIN mp)

\* variant: the second row reads the minimum of positions
decision_wrong_table(pos, mp, T) ==
    IF min_mi_positions(pos) = T THEN "up_to_date"
    ELSE IF min_mi_positions(pos) = T
            /\ count_positions(pos) = count_migration_positions(mp)
         THEN "finalizing_needed"
    ELSE IF min_mi_positions(pos) < 1 \/ min_mi_migration_positions(mp) < 1
         THEN "invalid"
    ELSE "run"

decision(pos, mp, T) ==
    IF min_mi_positions(pos) = T THEN "up_to_date"
    ELSE IF min_mi_migration_positions(mp) = T
            /\ count_positions(pos) = count_migration_positions(mp)
         THEN "finalizing_needed"
    ELSE IF min_mi_positions(pos) < 1 \/ min_mi_migration_positions(mp) < 1
         THEN "invalid"
    ELSE "run"

\* The chains of steps a behaviour may have registered: one step for every
\* target index 2..MaxT, of one kind at the even and one at the odd indices.
RegisteredChains ==
    {[t \in 2..MaxT |-> IF t % 2 = 0 THEN even ELSE odd] :
        even \in StepKinds, odd \in StepKinds}

\* ----- state --------------------------------------------------------------
VARIABLES
    views,                  \* history: the accessor views of the steps of this run
    models,                 \* derived models table, one record per fqid
    finalized,              \* history: the state the latest finalize started in
    last_write,              \* history: the latest isolated call of write_new_events
                            \* or of the writer
    id_sequences,           \* id_sequences table: collection -> stored number
    reserved,               \* history: the reservation calls and what they returned
    positions,              \* positions table: migration_index of position 1..n
    events,                 \* live events table: per position, in weight order
    migration_events,       \* staging rows [id, position, weight, event]
    next_event_id,          \* serial of migration_events.id
    migration_positions,    \* position -> migration_index
    migration_keyframes,    \* persisted keyframes [position, migration_index, models]
    migrations,             \* the registered steps, target index -> step
    pc,                     \* "idle" or "running" (between two position transactions)
    target_migration_index, \* self.target_migration_index
    todo,                   \* the fetched positions not yet processed
    last_position,          \* the anchor, None or a positions row
    result,                 \* outcome of the last call of migrate
    run_start,              \* history: staging, checkpoints, keyframes at the call
    processed,              \* history: positions committed by this run
    invoked,                \* history: steps invoked by this run, (position, target)
    failed_at,              \* history: the position whose transaction raised
    series                  \* history: state at the first run of a kill/rerun series

tables == << positions, events, models, migration_events, next_event_id,
             migration_positions, migration_keyframes, migrations, id_sequences >>
control == << pc, target_migration_index, todo, last_position, result >>
history == << run_start, processed, invoked, views, failed_at, series,
             last_write, finalized, reserved >>
vars == << tables, control, history >>

Database == [rows |-> migration_events, nid |-> next_event_id,
             kf |-> migration_keyframes, mp |-> migration_positions]

Snapshot == [rows |-> migration_events, mp |-> migration_positions,
             kf |-> migration_keyframes]

Init ==
    /\ \E n \in 0..MaxPositions :
          /\ positions \in [1..n -> MigrationIndices]
          /\ events = [p \in 1..n |-> EventsOfPosition(p)]
    /\ migration_events = {}
    /\ next_event_id = 1
    /\ migration_positions = << >>
    /\ migration_keyframes = {}
    /\ migrations \in RegisteredChains
    /\ pc = "idle"
    /\ target_migration_index = 1
    /\ todo = << >>
    /\ last_position = NoValue
    /\ result = "none"
    /\ run_start = [rows |-> {}, mp |-> << >>, kf |-> {}]
    /\ processed = << >>
    /\ invoked = << >>
    /\ views = << >>
    /\ failed_at = NoValue
    /\ series = [rows |-> {}, mp |-> << >>, nid |-> 1, kf |-> {}, T |-> 1,
                 killed |-> FALSE, committed |-> FALSE]
    /\ last_write = NoValue
    /\ models = build_models(events).models
    /\ finalized = NoValue
    /\ id_sequences = << >>
    /\ reserved = << >>

\* migrate(T, migrations): the decision table, and for the last row the read
\* transaction of run_actual_migrations.  The target is the highest index of
\* the registered steps and is never lowered between two calls (going back
\* to a prior migration index is not supported by the engine).
migrate(T) ==
    /\ pc = "idle"
    /\ T >= target_migration_index
    /\ target_migration_index' = T
    /\ run_start' = Snapshot
    /\ processed' = << >>
    /\ invoked' = << >>
    /\ views' = << >>
    /\ failed_at' = NoValue
    /\ series' = IF result = "killed" /\ T = target_migration_index
                 THEN series
                 ELSE [rows |-> migration_events, mp |-> migration_positions,
                       nid |-> next_event_id, kf |-> migration_keyframes,
                       T |-> T, killed |-> FALSE, committed |-> FALSE]
    /\ UNCHANGED << tables, last_write, reserved >>
    /\ finalized' = NoValue
    /\ LET d == decision(positions, migration_positions, T)
           start == min_position(positions, migration_positions, T)
           fetched == positions_query(positions, start.value)
       IN CASE d = "up_to_date" ->
                 result' = "false" /\ UNCHANGED << pc, todo, last_position >>
            [] d = "finalizing_needed" ->
                 result' = "true" /\ UNCHANGED << pc, todo, last_position >>
            [] d = "invalid" ->
                 result' = "MismatchingMigrationIndices"
                 /\ UNCHANGED << pc, todo, last_position >>
            [] d = "run" /\ start.err # "ok" ->
                 result' = start.err /\ UNCHANGED << pc, todo, last_position >>
            [] d = "run" /\ start.err = "ok" ->
                 /\ todo' = fetched
                 /\ last_position' = last_position_query(positions, start.value)
                 /\ IF fetched = << >>
                    THEN pc' = "idle" /\ result' = "true"
                    ELSE pc' = "running" /\ result' = "none"

\* variant: the transaction also stamps the target index on the row of the
\* positions table
position_transaction_stamps_index ==
    /\ pc = "running"
    /\ todo # << >>
    /\ LET position == Head(todo)
       IN \E order \in OrdersOf({r.id : r \in RowsAt(migration_events, position.position)}) :
            LET out == loop_body(Database, position, last_position,
                                 target_migration_index, migrations, events, order)
            IN /\ invoked' = invoked \o out.invoked
               /\ views' = views \o out.views
               /\ IF out.err = "ok"
                  THEN /\ migration_events' = out.rows
                       /\ next_event_id' = out.nid
                       /\ migration_keyframes' = out.kf
                       /\ migration_positions' = out.mp
                       /\ positions' = [positions EXCEPT ![position.position] =
                                            target_migration_index]
                       /\ last_position' = {position}
                       /\ todo' = Tail(todo)
                       /\ processed' = Append(processed, position.position)
                       /\ failed_at' = failed_at
                       /\ IF Tail(todo) = << >>
                          THEN pc' = "idle" /\ result' = "true"
                          ELSE pc' = "running" /\ result' = "none"
                  ELSE /\ UNCHANGED << migration_events, next_event_id,
                                       migration_keyframes, migration_positions,
                                       last_position, todo, processed, positions >>
                       /\ failed_at' = {position.position}
                       /\ pc' = "idle"
                       /\ result' = out.err
    /\ UNCHANGED << events, models, migrations, target_migration_index,
                    run_start, series, last_write, finalized, id_sequences,
                    reserved >>

\* One iteration of the loop of run_actual_migrations: a transaction that
\* commits, or raises and is rolled back; after the last one migrate returns.
position_transaction ==
    /\ pc = "running"
    /\ todo # << >>
    /\ LET position == Head(todo)
       IN \E order \in OrdersOf({r.id : r \in RowsAt(migration_events, position.position)}) :
            LET out == loop_body(Database, position, last_position,
                                 target_migration_index, migrations, events, order)
            IN /\ invoked' = invoked \o out.invoked
               /\ views' = views \o out.views
               /\ IF out.err = "ok"
                  THEN /\ migration_events' = out.rows
                       /\ next_event_id' = out.nid
                       /\ migration_keyframes' = out.kf
                       /\ migration_positions' = out.mp
                       /\ last_position' = {position}
                       /\ todo' = Tail(todo)
                       /\ processed' = Append(processed, position.position)
                       /\ failed_at' = failed_at
                       /\ IF Tail(todo) = << >>
                          THEN pc' = "idle" /\ result' = "true"
                          ELSE pc' = "running" /\ result' = "none"
                  ELSE /\ UNCHANGED << migration_events, next_event_id,
                                       migration_keyframes, migration_positions,
                                       last_position, todo, processed >>
                       /\ failed_at' = {position.position}
                       /\ pc' = "idle"
                       /\ result' = out.err
    /\ UNCHANGED << positions, events, models, migrations, target_migration_index,
                    run_start, series, last_write, finalized, id_sequences,
                    reserved >>

\* The process is killed between two position transactions.
kill ==
    /\ pc = "running"
    /\ pc' = "idle"
    /\ result' = "killed"
    /\ series' = [series EXCEPT !.killed = TRUE,
                                !.committed = @ \/ processed # << >>]
    /\ UNCHANGED << tables, target_migration_index, todo, last_position,
                    run_start, processed, invoked, views, failed_at, last_write,
                    finalized, reserved >>

Next ==
    \/ \E T \in 1..MaxT : migrate(T)
    \/ position_transaction
    \/ kill

Spec == Init /\ [][Next]_vars

\* ----- the Finalizer ------------------------------------------------------
\* variant: the live events of every position are replaced
replace_live_events_everywhere(live, rows) ==
    [p \in DOMAIN live |-> StagedEvents(rows, p)]

\* variant: the staged events are copied in id order
replace_live_events_by_id(live, rows) ==
    [p \in DOMAIN live |->
        IF RowsAt(rows, p) = {} THEN live[p]
        ELSE LET ids == Ascending({r.id : r \in RowsAt(rows, p)})
             IN [i \in 1..Len(ids) |-> (CHOOSE r \in rows : r.id = ids[i]).event]]

\* The live log after the replacement step: every position present in
\* staging gets its staged events in weight order, the others keep theirs.
replace_live_events(live, rows) ==
    [p \in DOMAIN live |-> IF RowsAt(rows, p) # {} THEN StagedEvents(rows, p) ELSE live[p]]

\* finalize(): runs when the previous call returned true, all six steps in
\* one transaction; a replay that fails rolls the transaction back.
finalize ==
    /\ pc = "idle"
    /\ result \in {"true", "finalized"}
    /\ \A f \in finalized : f.runs < MaxFinalizeRuns
    /\ LET live == replace_live_events(events, migration_events)
           rebuilt == build_models(live)
       IN IF rebuilt.err = "ok"
          THEN /\ events' = live
               /\ migration_events' = {}
               /\ migration_positions' = << >>
               /\ positions' = [p \in DOMAIN positions |-> target_migration_index]
               /\ models' = rebuilt.models
               /\ migration_keyframes' = {}
               /\ result' = "finalized"
               /\ finalized' = IF result = "finalized"
                                THEN {[f EXCEPT !.runs = @ + 1] : f \in finalized}
                                ELSE {[rows |-> migration_events,
                                       mp |-> migration_positions,
                                       events |-> events,
                                       positions |-> positions, runs |-> 1]}
               /\ UNCHANGED << next_event_id, migrations, id_sequences >>
          ELSE /\ result' = rebuilt.err
               /\ UNCHANGED << tables, finalized >>
    /\ UNCHANGED << pc, target_migration_index, todo, last_position, run_start,
                    processed, invoked, views, failed_at, series, last_write,
                    reserved >>

FinalizeNext ==
    \/ Next
    \/ finalize

FinalizeSpec == Init /\ [][FinalizeNext]_vars

\* ----- write_new_events on its own ---------------------------------------
\* The diff-write as a function of the staging table: it is applied to any
\* position with any event list, the id query answering in any row order.
EventPool == {SampleLog[1][1], SampleLog[2][1]}

EventLists == UNION {[1..n -> EventPool] : n \in 0..MaxEvents}

AllOrdersOf(ids) ==
    {s \in [1..Cardinality(ids) -> ids] : \A i, j \in DOMAIN s : s[i] = s[j] => i = j}

DiffWriteInit ==
    /\ positions = [p \in 1..MaxPositions |-> 1]
    /\ events = [p \in 1..MaxPositions |-> EventsOfPosition(p)]
    /\ migration_events = {}
    /\ next_event_id = 1
    /\ migration_positions = << >>
    /\ migration_keyframes = {}
    /\ migrations = [t \in 2..MaxT |-> "PassThrough"]
    /\ pc = "idle"
    /\ target_migration_index = 1
    /\ todo = << >>
    /\ last_position = NoValue
    /\ result = "none"
    /\ run_start = [rows |-> {}, mp |-> << >>, kf |-> {}]
    /\ processed = << >>
    /\ invoked = << >>
    /\ views = << >>
    /\ failed_at = NoValue
    /\ series = [rows |-> {}, mp |-> << >>, nid |-> 1, kf |-> {}, T |-> 1,
                 killed |-> FALSE, committed |-> FALSE]
    /\ last_write = NoValue
    /\ models = build_models(events).models
    /\ finalized = NoValue
    /\ id_sequences = << >>
    /\ reserved = << >>

diff_write ==
    \E position \in 1..Len(positions), new_events \in EventLists :
      \E order \in AllOrdersOf({r.id : r \in RowsAt(migration_events, position)}) :
        LET old_event_ids == old_event_ids_query(migration_events, position, order)
            out == write_new_events(migration_events, next_event_id, new_events,
                                    position, old_event_ids)
        IN /\ out.nid <= MaxRowId + 1
           /\ migration_events' = out.rows
           /\ next_event_id' = out.nid
           /\ last_write' = {[position |-> position, new_events |-> new_events,
                              old_event_ids |-> old_event_ids,
                              nid |-> next_event_id,
                              before |-> migration_events]}
           /\ UNCHANGED << positions, events, models, migration_positions,
                           migration_keyframes, migrations, control, run_start,
                           processed, invoked, views, failed_at, series, finalized,
                           id_sequences, reserved >>

DiffWriteNext == diff_write

DiffWriteSpec == DiffWriteInit /\ [][DiffWriteNext]_vars

\* ----- the writer ----------------------------------------------------------
\* The events a write request may carry: the six kinds on a/1, and a second
\* model b/1.
WritePool ==
    { Ev("create", "a", 1, {<<"f", 1>>}),
      Ev("update", "a", 1, {<<"f", 2>>}),
      Ev("update", "a", 1, {}),
      [type |-> "deletefields", fqid |-> <<"a", 1>>, data |-> {}, fields |-> {"f"}],
      [type |-> "listupdate", fqid |-> <<"a", 1>>, data |-> {},
       add |-> {<<"g", 2>>}, remove |-> {<<"g", 1>>}],
      Ev("delete", "a", 1, {}),
      Ev("restore", "a", 1, {}),
      Ev("create", "b", 1, {}) }

WriteRequests == UNION {[1..n -> WritePool] : n \in 1..MaxWriteEvents}

\* the database before the first write
WriterInit ==
    /\ positions = << >>
    /\ events = << >>
    /\ models = {}
    /\ migration_events = {}
    /\ next_event_id = 1
    /\ migration_positions = << >>
    /\ migration_keyframes = {}
    /\ migrations = [t \in 2..MaxT |-> "PassThrough"]
    /\ pc = "idle"
    /\ target_migration_index = 1
    /\ todo = << >>
    /\ last_position = NoValue
    /\ result = "none"
    /\ run_start = [rows |-> {}, mp |-> << >>, kf |-> {}]
    /\ processed = << >>
    /\ invoked = << >>
    /\ views = << >>
    /\ failed_at = NoValue
    /\ series = [rows |-> {}, mp |-> << >>, nid |-> 1, kf |-> {}, T |-> 1,
                 killed |-> FALSE, committed |-> FALSE]
    /\ last_write = NoValue
    /\ finalized = NoValue
    /\ id_sequences = << >>
    /\ reserved = << >>

\* One write request: a new position whose events are applied in order to
\* the models table; the first failing event rolls the whole request back.
write ==
    /\ Len(positions) < MaxWrites
    /\ \E request \in WriteRequests :
          LET position == Len(positions) + 1
          IN \E out \in {apply_events(models, request, position)} :
               /\ last_write' = {[position |-> position, events |-> request,
                                  err |-> out.err, before |-> models]}
               /\ IF out.err = "ok"
                  THEN /\ positions' = Append(positions, target_migration_index)
                       /\ events' = Append(events, request)
                       /\ models' = out.models
                  ELSE UNCHANGED << positions, events, models >>
    /\ UNCHANGED << migration_events, next_event_id, migration_positions,
                    migration_keyframes, migrations, id_sequences, control,
                    run_start, processed, invoked, views, failed_at, series,
                    finalized, reserved >>

WriterNext == write

WriterSpec == WriterInit /\ [][WriterNext]_vars

\* ----- id reservation -----------------------------------------------------
Collections == {"a", "b"}

\* "x" * (COLLECTION_MAX_LEN + 1), the name the tests reject as too long
TooLongName == << "x", "xx", "xxx", "xxxx", "xxxxx" >>[COLLECTION_MAX_LEN + 1]

\* the names a caller may send: the valid ones, the empty and the too long one
CollectionNames == Collections \cup {"", TooLongName}

\* the format check of reserve_next_ids
valid_reservation(collection, amount) ==
    amount > 0 /\ collection # "" /\ Len(collection) <= COLLECTION_MAX_LEN

\* variant: a rejected call for a well-formed collection name still uses up
\* one id of it
reserve_next_ids_burns_id(sequences, collection, amount) ==
    IF ~valid_reservation(collection, amount)
    THEN [err |-> "InvalidFormat", ids |-> << >>,
          sequences |-> IF collection \in Collections
                        THEN [c \in (DOMAIN sequences) \cup {collection} |->
                                 IF c # collection THEN sequences[c]
                                 ELSE IF c \in DOMAIN sequences
                                      THEN sequences[c] + 1 ELSE 2]
                        ELSE sequences]
    ELSE LET number == IF collection \in DOMAIN sequences
                       THEN sequences[collection] + amount
                       ELSE amount + 1
         IN [err |-> "ok",
             ids |-> [i \in 1..amount |-> number - amount + i - 1],
             sequences |-> [c \in (DOMAIN sequences) \cup {collection} |->
                               IF c = collection THEN number ELSE sequences[c]]]

\* variant: the stored number is the highest id handed out
reserve_next_ids_store_highest(sequences, collection, amount) ==
    IF ~valid_reservation(collection, amount)
    THEN [err |-> "InvalidFormat", ids |-> << >>, sequences |-> sequences]
    ELSE LET stored == IF collection \in DOMAIN sequences
                       THEN sequences[collection] + amount
                       ELSE amount
             number == stored + 1
         IN [err |-> "ok",
             ids |-> [i \in 1..amount |-> number - amount + i - 1],
             sequences |-> [c \in (DOMAIN sequences) \cup {collection} |->
                               IF c = collection THEN stored ELSE sequences[c]]]

\* reserve_next_ids: the upsert stores amount + 1 for a new collection and
\* adds amount to the number of a known one; it returns the stored number,
\* and the ids are the `amount` numbers below it.  A call with amount <= 0,
\* an empty or a too long collection name raises InvalidFormat.
reserve_next_ids(sequences, collection, amount) ==
    IF ~valid_reservation(collection, amount)
    THEN [err |-> "InvalidFormat", ids |-> << >>, sequences |-> sequences]
    ELSE LET number == IF collection \in DOMAIN sequences
                       THEN sequences[collection] + amount
                       ELSE amount + 1
         IN [err |-> "ok",
             ids |-> [i \in 1..amount |-> number - amount + i - 1],
             sequences |-> [c \in (DOMAIN sequences) \cup {collection} |->
                               IF c = collection THEN number ELSE sequences[c]]]

reserve_ids ==
    /\ Len(reserved) < MaxReserves
    /\ \E collection \in CollectionNames, amount \in (-1)..MaxAmount :
          \E out \in {reserve_next_ids(id_sequences, collection, amount)} :
            /\ id_sequences' = out.sequences
            /\ reserved' = Append(reserved,
                                  [collection |-> collection, amount |-> amount,
                                   err |-> out.err, ids |-> out.ids,
                                   before |-> id_sequences])
    /\ UNCHANGED << positions, events, models, migration_events, next_event_id,
                    migration_positions, migration_keyframes, migrations, control,
                    run_start, processed, invoked, views, failed_at, series,
                    last_write, finalized >>

ReserveNext == reserve_ids

ReserveSpec == WriterInit /\ [][ReserveNext]_vars


\* ----- reference values for the properties --------------------------------
PositionsOf(seq) == [i \in 1..Len(seq) |-> seq[i].position]

\* staging content: per position the events in weight order
Content(rows) == [p \in 1..Len(positions) |-> StagedEvents(rows, p)]

\* the migration index a position stands at: its checkpoint, else its own
EffectiveIndex(mp, p) == IF p \in DOMAIN mp THEN mp[p] ELSE positions[p]

NeedsWork(mp, T) == {p \in 1..Len(positions) : EffectiveIndex(mp, p) < T}

\* the image of an event list under the steps s+1 .. T, as lists
RECURSIVE Image(_, _, _)
Image(evs, s, T) ==
    IF s >= T THEN evs
    ELSE Image(BaseMigration_migrate(migrations[s + 1], evs).events, s + 1, T)

\* a whole walk without interruption, ids handed out in ascending order
RECURSIVE Walk(_, _, _, _)
Walk(db, list, anchor, T) ==
    IF list = << >> THEN [err |-> "ok", rows |-> db.rows, mp |-> db.mp]
    ELSE LET out == loop_body(db, Head(list), anchor, T, migrations, events, << >>)
         IN IF out.err # "ok" THEN [err |-> out.err, rows |-> db.rows, mp |-> db.mp]
            ELSE Walk([rows |-> out.rows, nid |-> out.nid, kf |-> out.kf, mp |-> out.mp],
                      Tail(list), {Head(list)}, T)

UninterruptedRun(db, T) ==
    LET d == decision(positions, db.mp, T)
        start == min_position(positions, db.mp, T)
    IN IF d = "invalid" THEN [err |-> "MismatchingMigrationIndices", rows |-> db.rows, mp |-> db.mp]
       ELSE IF d # "run" THEN [err |-> "ok", rows |-> db.rows, mp |-> db.mp]
       ELSE IF start.err # "ok" THEN [err |-> start.err, rows |-> db.rows, mp |-> db.mp]
       ELSE Walk(db, positions_query(positions, start.value),
                 last_position_query(positions, start.value), T)

Returned == pc = "idle" /\ result # "none"

\* ----- C1 -----------------------------------------------------------------
\* C1: a run of migrate(T) that was killed between position transactions and
\* then rerun to completion leaves the same staging content (per position, in
\* weight order) and the same migration_positions as one uninterrupted run of
\* migrate(T) from the state the first run started in.
ResumeCorrectness ==
    (Returned /\ result = "true" /\ series.killed) =>
        LET ref == UninterruptedRun([rows |-> series.rows, nid |-> series.nid,
                                     kf |-> series.kf, mp |-> series.mp], series.T)
        IN /\ ref.err = "ok"
           /\ Content(migration_events) = Content(ref.rows)
           /\ migration_positions = ref.mp

\* the positions a run walks, committed ones first
WalkList == processed \o PositionsOf(todo)

\* a run that has fetched its positions and committed none yet
WalkStarted == pc = "running" /\ processed = << >>

\* ----- C2 -----------------------------------------------------------------
\* C2: when the Position Migrator runs, the first position it processes is
\* the lowest position whose effective index (checkpoint, else own index) is
\* below T, and no position that still needs work is left out of the walk.
Restartability ==
    (WalkStarted /\ NeedsWork(migration_positions, target_migration_index) # {}) =>
        /\ Head(todo).position = MinOf(NeedsWork(migration_positions, target_migration_index))
        /\ NeedsWork(migration_positions, target_migration_index) \subseteq SeqRange(PositionsOf(todo))

\* ----- C3 -----------------------------------------------------------------
OldestBelowTarget(T) == {p \in 1..Len(positions) : positions[p] < T}
BeyondCheckpoints(mp) ==
    IF DOMAIN mp = {} THEN {} ELSE {p \in 1..Len(positions) : p > MaxOf(DOMAIN mp)}
CheckpointsBelow(mp, T) == {p \in DOMAIN mp : mp[p] < T}

MinIndexOfPositions == MinOf({positions[p] : p \in 1..Len(positions)})

NothingWritten ==
    /\ Snapshot = run_start
    /\ processed = << >>
    /\ invoked = << >>

FinalizationPendingCase ==
    (/\ result # "none" \/ pc = "running"
     /\ Len(positions) > 0 /\ MinIndexOfPositions # target_migration_index
     /\ DOMAIN run_start.mp # {}
     /\ MinOf({run_start.mp[p] : p \in DOMAIN run_start.mp}) = target_migration_index
     /\ Cardinality(DOMAIN run_start.mp) = Len(positions)) =>
        /\ pc = "idle"
        /\ result = "true"
        /\ NothingWritten

FinalizationPendingCaseWitness ==
    /\ Returned /\ result = "true"
    /\ processed = << >>
    /\ Len(positions) >= 2
    /\ MinIndexOfPositions # target_migration_index
    /\ \A p \in 1..Len(positions) :
          p \in DOMAIN migration_positions /\ migration_positions[p] = target_migration_index

\* ----- C6 -----------------------------------------------------------------
\* C6: when neither no-op row applies and the minimum index of positions or
\* of migration_positions is below 1 (0 included), migrate raises
\* MismatchingMigrationIndices and commits nothing.
InvalidIndexCase ==
    (/\ result # "none" \/ pc = "running"
     /\ Len(positions) > 0
     /\ MinIndexOfPositions # target_migration_index
     /\ ~ (/\ DOMAIN run_start.mp # {}
           /\ MinOf({run_start.mp[p] : p \in DOMAIN run_start.mp}) = target_migration_index
           /\ Cardinality(DOMAIN run_start.mp) = Len(positions))
     /\ \/ MinIndexOfPositions < 1
        \/ \E p \in DOMAIN run_start.mp : run_start.mp[p] < 1) =>
        /\ pc = "idle"
        /\ result = "MismatchingMigrationIndices"
        /\ NothingWritten

\* ----- C7 -----------------------------------------------------------------
\* C7: with an empty positions table migrate(T) returns false and leaves
\* every table empty.
EmptyDatastoreCase ==
    (Len(positions) = 0 /\ (result # "none" \/ pc = "running")) =>
        /\ pc = "idle"
        /\ result = "false"
        /\ migration_events = {}
        /\ DOMAIN migration_positions = {}
        /\ migration_keyframes = {}


\* ----- C8 -----------------------------------------------------------------
\* what the run found for position p when it was called
SourceEvents(p) ==
    IF p \in DOMAIN run_start.mp THEN StagedEvents(run_start.rows, p) ELSE events[p]

Untouched(p) ==
    /\ RowsAt(migration_events, p) = RowsAt(run_start.rows, p)
    /\ (p \in DOMAIN migration_positions) = (p \in DOMAIN run_start.mp)
    /\ p \in DOMAIN migration_positions => migration_positions[p] = run_start.mp[p]

\* C8: in every committed state a position has either all effects of its
\* whole step chain together with migration_positions[P] = T, or none of
\* them; when the transaction of a position raises, exactly the positions
\* the run walked before it carry the checkpoint of this run, and the failed
\* position and all later ones are as they were before the run.
PositionAtomicity ==
    /\ \A p \in 1..Len(positions) :
          IF p \in SeqRange(processed)
          THEN /\ p \in DOMAIN migration_positions
               /\ migration_positions[p] = target_migration_index
               /\ StagedEvents(migration_events, p)
                    = Image(SourceEvents(p), EffectiveIndex(run_start.mp, p),
                            target_migration_index)
          ELSE Untouched(p)
    /\ failed_at # {} =>
          /\ pc = "idle"
          /\ todo # << >> /\ failed_at = {Head(todo).position}
          /\ \A p \in 1..Len(positions) :
                p >= Head(todo).position => Untouched(p)
          /\ SeqRange(processed) =
                {p \in SeqRange(WalkList) : p < Head(todo).position}

PositionAtomicityWitness ==
    /\ failed_at # {} /\ result = "StepError"
    /\ processed # << >>
    /\ Len(invoked) >= 3
    /\ migration_events # run_start.rows

\* ----- C9 -----------------------------------------------------------------
Rising(p) == p > 1 /\ positions[p] > positions[p - 1]

\* C9: a position whose migration_index is greater than that of its anchor
\* makes the run raise MismatchingMigrationIndices before any step or write
\* for it; no position with a rising index is ever stepped or committed.
SanityCheckOnRisingIndices ==
    /\ \A i \in 1..Len(invoked) : ~ Rising(invoked[i][1])
    /\ \A i \in 1..Len(processed) : ~ Rising(processed[i])
    /\ (failed_at # {} /\ Rising(Head(todo).position)) =>
          /\ result = "MismatchingMigrationIndices"
          /\ Untouched(Head(todo).position)
    /\ (failed_at # {} /\ result = "MismatchingMigrationIndices") =>
          Rising(Head(todo).position)

SanityCheckOnRisingIndicesWitness ==
    /\ failed_at # {} /\ result = "MismatchingMigrationIndices"
    /\ processed # << >> /\ invoked # << >>
    /\ Len(todo) >= 1

\* ----- C10 ----------------------------------------------------------------
\* a call of migrate whose walk committed every fetched position
WalkCompleted == Returned /\ result = "true" /\ processed # << >>

\* C10 as stated: after a successful migrate, P_i.migration_index >=
\* P_{i+1}.migration_index is true for no two adjacent positions.
NeverNonRising ==
    WalkCompleted =>
        \A i \in 1..(Len(positions) - 1) : ~ (positions[i] >= positions[i + 1])

\* C10 amended: after a migrate whose walk completed, P_i.migration_index >=
\* P_{i+1}.migration_index is true for all adjacent positions P_i < P_{i+1}
\* of which P_{i+1} was walked: the index never rises along the walk.
MonotoneIndices ==
    WalkCompleted =>
        \A i \in 1..(Len(positions) - 1) :
            (i + 1) >= Head(processed) => positions[i] >= positions[i + 1]

MonotoneIndicesWitness ==
    /\ WalkCompleted
    /\ Len(processed) >= 2
    /\ Head(processed) > 1
    /\ \E i \in 1..(Len(positions) - 1) : positions[i] > positions[i + 1]

\* ----- C11 ----------------------------------------------------------------
\* the id order the query answered with is the order of the weights
InWeightOrder(w) ==
    w.old_event_ids = [i \in 1..Len(w.old_event_ids) |->
                          ByWeight(RowsAt(w.before, w.position))[i].id]

\* C11: after write_new_events(P, new_events) the staging rows at P, read in
\* ascending weight order, are exactly new_events and carry the weights
\* 1..|new_events|, whether the previous row count at P was smaller, equal or
\* larger, and whatever order the id query answered in; rows of the other
\* positions are left alone.
DiffWriteResult ==
    \A w \in last_write :
        LET at == RowsAt(migration_events, w.position)
        IN /\ StagedEvents(migration_events, w.position) = w.new_events
           /\ Cardinality(at) = Len(w.new_events)
           /\ {r.weight : r \in at} = 1..Len(w.new_events)
           /\ migration_events \ at = w.before \ RowsAt(w.before, w.position)

DiffWriteResultWitness ==
    \E w \in last_write :
        /\ Len(w.old_event_ids) > Len(w.new_events)
        /\ Len(w.new_events) > 0
        /\ ~InWeightOrder(w)
        /\ \E p \in 1..Len(positions) : p # w.position /\ RowsAt(migration_events, p) # {}

\* ----- C12 ----------------------------------------------------------------
\* every registered step returns its events unchanged
NoOpChain == \A t \in DOMAIN migrations : migrations[t] = "PassThrough"

\* C12: when the steps are no-op rewriters, processing a position that is
\* already staged leaves every staging row of it unchanged in id, weight and
\* payload; only its checkpoint moves to the target index.
DiffWriteStability ==
    NoOpChain =>
        \A i \in 1..Len(processed) :
            LET p == processed[i]
            IN p \in DOMAIN run_start.mp =>
                  /\ RowsAt(migration_events, p) = RowsAt(run_start.rows, p)
                  /\ migration_positions[p] = target_migration_index

\* ----- C13 ----------------------------------------------------------------
\* the last step of the chain of p ran in this run and returned no event
LastStepReturnedNothing(p) ==
    /\ EffectiveIndex(run_start.mp, p) < target_migration_index
    /\ Image(SourceEvents(p), EffectiveIndex(run_start.mp, p),
             target_migration_index) = << >>

\* C13: when the last step returns the empty list for a position P, after
\* the commit no staging row of P is left and migration_positions[P] = T.
EmptyImage ==
    \A i \in 1..Len(processed) :
        LET p == processed[i]
        IN LastStepReturnedNothing(p) =>
              /\ RowsAt(migration_events, p) = {}
              /\ p \in DOMAIN migration_positions
              /\ migration_positions[p] = target_migration_index

EmptyImageWitness ==
    \E i \in 1..Len(processed) :
        LET p == processed[i]
        IN /\ LastStepReturnedNothing(p)
           /\ RowsAt(run_start.rows, p) # {}
           /\ RowsAt(migration_events, p) = {}
           /\ migration_positions[p] = target_migration_index

\* ----- C14 ----------------------------------------------------------------
\* position p was migrated to an empty image when finalize started
EmptyImageAt(f, p) ==
    /\ p \in DOMAIN f.mp
    /\ f.mp[p] = target_migration_index
    /\ RowsAt(f.rows, p) = {}

\* C14: a position that was migrated to an empty image (checkpoint T, no
\* staging row) has no live event after finalize.
EmptyImageFinalized ==
    result = "finalized" =>
        \A f \in finalized : \A p \in 1..Len(positions) :
            EmptyImageAt(f, p) => events[p] = << >>

\* ----- C15 ----------------------------------------------------------------
\* C15: after migrate(T) followed by finalize the staging events and
\* migration_positions are empty, every row of positions has migration index
\* T, and every position that had staging rows holds exactly its staged
\* events in weight order as live events.
FinalizePostState ==
    result = "finalized" =>
        /\ migration_events = {}
        /\ migration_positions = << >>
        /\ \A p \in 1..Len(positions) : positions[p] = target_migration_index
        /\ \A f \in finalized : \A p \in 1..Len(positions) :
              RowsAt(f.rows, p) # {} => events[p] = StagedEvents(f.rows, p)

FinalizePostStateWitness ==
    /\ result = "finalized"
    /\ \E f \in finalized :
          /\ f.runs = 1
          /\ \E p \in 1..Len(positions) :
                /\ f.positions[p] < target_migration_index
                /\ Cardinality(RowsAt(f.rows, p)) >= 2
                /\ StagedEvents(f.rows, p) # f.events[p]
                /\ events[p] = StagedEvents(f.rows, p)

\* ----- C16 ----------------------------------------------------------------
\* C16: a finalize that directly follows a finalize leaves live events,
\* positions, staging events, migration_positions, models and keyframes as
\* the first one left them.
FinalizeIdempotence ==
    [][(finalize /\ result = "finalized") =>
          UNCHANGED << events, positions, migration_events, migration_positions,
                       models, migration_keyframes >>]_vars

FinalizeIdempotenceWitness ==
    /\ result = "finalized"
    /\ \E f \in finalized :
          /\ f.runs = 2
          /\ f.rows # {}
          /\ f.events # events
          /\ models # {}

\* ----- C17 ----------------------------------------------------------------
\* the chain of steps s+1 .. T runs through on the event list
RECURSIVE ImageDefined(_, _, _)
ImageDefined(evs, s, T) ==
    \/ s >= T
    \/ /\ s + 1 \in DOMAIN migrations
       /\ BaseMigration_migrate(migrations[s + 1], evs).tag # "raise"
       /\ ImageDefined(BaseMigration_migrate(migrations[s + 1], evs).events, s + 1, T)

\* position q has events that read under migration index MI
ReadsUnder(q, MI) ==
    /\ positions[q] >= 1
    /\ positions[q] <= MI
    /\ ImageDefined(events[q], positions[q], MI)

\* the events of position q as they read under migration index MI
EventsUnder(q, MI) == Image(events[q], positions[q], MI)

\* the fold of the events of the positions 1..P under MI, from no model
FoldUpTo(P, MI) == replay({}, [q \in 1..P |-> EventsUnder(q, MI)], 1, P)

\* C17: whenever a step s -> t is invoked for a position P, the old accessor
\* shows the fold of the index-s events of the positions before P and the
\* new accessor the fold of their index-t events, the events of P excluded.
CrossAccessorGuarantee ==
    \A i \in 1..Len(views) :
        LET v == views[i]
            before == v.position - 1
        IN (\A q \in 1..before : ReadsUnder(q, v.source_migration_index)) =>
              /\ FoldUpTo(before, v.source_migration_index).err = "ok"
              /\ v.old = FoldUpTo(before, v.source_migration_index).models
              /\ FoldUpTo(before, v.target_migration_index).err = "ok"
              /\ v.new = FoldUpTo(before, v.target_migration_index).models

\* ----- C18 ----------------------------------------------------------------
\* the keyframes move_to_next_position persisted in this run, as
\* (position, migration index), for the positions that committed
MovedKeyframes ==
    {k \in (1..Len(positions)) \X (1..MaxT) :
        /\ k[1] \in SeqRange(processed)
        /\ \E i \in 1..Len(invoked) :
              /\ invoked[i][1] = k[1]
              /\ \/ k[2] = invoked[i][2] - 1
                 \/ k[2] = invoked[i][2] /\ k[2] = target_migration_index}

\* C18: every keyframe persisted for (P, MI) by move_to_next_position during
\* a run is the model set obtained by replaying from no model all events of
\* the positions <= P as they read under MI.
KeyframeFoldLaw ==
    \A k \in MovedKeyframes :
        (\A q \in 1..k[1] : ReadsUnder(q, k[2])) =>
            /\ FoldUpTo(k[1], k[2]).err = "ok"
            /\ keyframe_at(migration_keyframes, k[1], k[2])
                  = {[position |-> k[1], migration_index |-> k[2],
                      models |-> FoldUpTo(k[1], k[2]).models]}

\* ----- C19 ----------------------------------------------------------------
\* what the conventions make of one event: itself for null, nothing for the
\* empty list, the listed events for a list
ConventionPiece(kind, event) ==
    IF migrate_event(kind, event).tag = "null" THEN << event >>
    ELSE migrate_event(kind, event).events

\* the pieces of an event list, concatenated in weight order
RewrittenPosition(kind, evs) ==
    LET RECURSIVE Concat(_)
        Concat(i) == IF i > Len(evs) THEN << >>
                     ELSE ConventionPiece(kind, evs[i]) \o Concat(i + 1)
    IN Concat(1)

RECURSIVE RewrittenThrough(_, _, _)
RewrittenThrough(evs, s, T) ==
    IF s >= T THEN evs
    ELSE RewrittenThrough(RewrittenPosition(migrations[s + 1], evs), s + 1, T)

\* the event at index i of position p is the last one of the live log on its fqid
LastOnFqid(p, i) ==
    /\ \A j \in (i + 1)..Len(events[p]) : events[p][j].fqid # events[p][i].fqid
    /\ \A q \in (p + 1)..Len(events) : \A j \in 1..Len(events[q]) :
          events[q][j].fqid # events[p][i].fqid

\* C19: a position migrated and finalized holds, for every original event in
\* weight order, the event itself when its rewriter returned null, nothing
\* when it returned the empty list and the listed events when it returned a
\* list; an event a rewriter added next to one of position p gives a model
\* with meta_position p.
RewriterConventions ==
    result = "finalized" =>
        \A f \in finalized : \A p \in 1..Len(positions) :
            (RowsAt(f.rows, p) # {} /\ p \in DOMAIN f.mp
               /\ f.mp[p] = target_migration_index /\ f.positions[p] >= 1) =>
                /\ events[p] = RewrittenThrough(f.events[p], f.positions[p],
                                                target_migration_index)
                /\ \A i \in 1..Len(events[p]) :
                      (events[p][i].type = "create" /\ LastOnFqid(p, i)) =>
                          Model(events[p][i].fqid, events[p][i].data, FALSE, p) \in models

RewriterConventionsWitness ==
    /\ result = "finalized"
    /\ Len(positions) >= 2
    /\ \E f \in finalized :
          /\ f.positions[2] = 1 /\ f.mp = [p \in 1..Len(positions) |-> 3]
          /\ f.events[2] = SampleLog[2]
    /\ migrations[2] = "AddEvent" /\ migrations[3] = "DropUpdate"
    /\ target_migration_index = 3
    /\ events[2] = << SampleLog[2][2], Ev("create", "b", 2, {}) >>
    /\ Model(<<"b", 2>>, {}, FALSE, 2) \in models

\* ----- C20 ----------------------------------------------------------------
\* the models of a log as they read at position p
ModelsAt(log, p) == replay({}, log, 1, p).models

\* finalize promoted exactly one step, MoveId, over a log of one index
SingleMoveIdStep(f) ==
    /\ target_migration_index \in DOMAIN migrations
    /\ migrations[target_migration_index] = "MoveId"
    /\ \A p \in 1..Len(positions) :
          /\ f.positions[p] = target_migration_index - 1
          /\ p \in DOMAIN f.mp /\ f.mp[p] = target_migration_index

\* the lowest id the original log uses in a collection
LowestId(log, collection) ==
    MinOf({id \in 0..(MaxPositions + MaxT) :
              \E p \in 1..Len(log) : \E i \in 1..Len(log[p]) :
                  log[p][i].fqid = <<collection, id>>})

\* C20: after migrate and finalize with the single step c/i -> c/(i+1), at
\* every position the model at c/(i+1) is the model the original log had at
\* c/i (fields, meta_deleted, meta_position), a model exists at c/(i+1)
\* only if c/i existed in the original log, and no model has the lowest
\* original id.
FqidRemapping ==
    result = "finalized" =>
        \A f \in finalized :
            SingleMoveIdStep(f) =>
                /\ \A p \in 1..Len(positions) :
                      /\ \A m \in ModelsAt(f.events, p) :
                            Model(<<m.fqid[1], m.fqid[2] + 1>>, m.fields,
                                  m.meta_deleted, m.meta_position) \in ModelsAt(events, p)
                      /\ \A m \in ModelsAt(events, p) :
                            \E o \in ModelsAt(f.events, p) :
                                o.fqid = <<m.fqid[1], m.fqid[2] - 1>>
                      /\ \A m \in ModelsAt(events, p) :
                            m.fqid[2] # LowestId(f.events, m.fqid[1])
                /\ models = ModelsAt(events, Len(positions))

FqidRemappingWitness ==
    /\ result = "finalized"
    /\ Len(positions) >= 3
    /\ \E f \in finalized : SingleMoveIdStep(f) /\ f.events # events
    /\ Model(<<"a", 2>>, {<<"f", 2>>}, TRUE, 3) \in models
    /\ Model(<<"a", 3>>, {<<"f", 42>>}, FALSE, 2) \in models
    /\ \A m \in models : m.fqid # <<"a", 1>>

\* ----- C21 ----------------------------------------------------------------
RECURSIVE FlatLog(_)
FlatLog(log) == IF log = << >> THEN << >> ELSE Head(log) \o FlatLog(Tail(log))

\* the type of the latest Create, Delete or Restore on fqid, "none" without one
LastLifecycleEvent(evs, fqid) ==
    LET at == {i \in 1..Len(evs) : /\ evs[i].fqid = fqid
                                   /\ evs[i].type \in {"create", "delete", "restore"}}
    IN IF at = {} THEN "none" ELSE evs[MaxOf(at)].type

\* what an event meets: no model, a live model or a soft-deleted one
Lifecycle(evs, fqid) ==
    CASE LastLifecycleEvent(evs, fqid) = "none" -> "absent"
      [] LastLifecycleEvent(evs, fqid) = "delete" -> "deleted"
      [] OTHER -> "alive"

Precondition(event, met) ==
    CASE event.type = "create" -> IF met = "alive" THEN "ModelExists" ELSE "ok"
      [] event.type = "restore" -> IF met = "deleted" THEN "ok" ELSE "ModelNotDeleted"
      [] OTHER -> IF met = "alive" THEN "ok" ELSE "ModelDoesNotExist"

\* the outcome of a request after the events `prior`: the error of the first
\* event whose precondition fails against all events before it
ExpectedOutcome(prior, request) ==
    LET Met(i) == Lifecycle(prior \o SubSeq(request, 1, i - 1), request[i].fqid)
        bad == {i \in 1..Len(request) : Precondition(request[i], Met(i)) # "ok"}
    IN IF bad = {} THEN "ok"
       ELSE Precondition(request[MinOf(bad)], Met(MinOf(bad)))

\* C21: every write ends with the error of its first event whose lifecycle
\* precondition fails against the state left by all earlier events, those of
\* the same write included (ModelExists for a Create on a live model,
\* ModelDoesNotExist for Update, DeleteFields, ListUpdate and Delete on a
\* missing or soft-deleted model, ModelNotDeleted for a Restore on a model
\* that is not soft-deleted), it succeeds when there is no such event, and a
\* failed write changes nothing.
LifecyclePreconditions ==
    \A w \in last_write :
        /\ w.err = ExpectedOutcome(FlatLog(SubSeq(events, 1, w.position - 1)), w.events)
        /\ w.err # "ok" => models = w.before /\ Len(events) = w.position - 1
        /\ w.err = "ok" => Len(events) = w.position /\ events[w.position] = w.events

LifecyclePreconditionsWitness ==
    \E w \in last_write :
        /\ w.position = 2
        /\ w.events = << Ev("delete", "a", 1, {}), Ev("update", "a", 1, {<<"f", 2>>}) >>
        /\ w.err = "ModelDoesNotExist"
        /\ Model(<<"a", 1>>, {<<"f", 1>>}, FALSE, 1) \in models

\* ----- C22 ----------------------------------------------------------------
\* the positions of a log with an event on fqid
TouchedAt(log, fqid) ==
    {p \in 1..Len(log) : \E i \in 1..Len(log[p]) : log[p][i].fqid = fqid}

\* C22: the models table holds exactly the models the log touched, each with
\* meta_position = the position of the last event on it (whether or not the
\* event changed a field) and meta_deleted true iff the latest Create, Delete
\* or Restore on it was a Delete.
MetaFields ==
    /\ \A m \in models :
          /\ TouchedAt(events, m.fqid) # {}
          /\ m.meta_position = MaxOf(TouchedAt(events, m.fqid))
          /\ m.meta_deleted <=> LastLifecycleEvent(FlatLog(events), m.fqid) = "delete"
    /\ \A p \in 1..Len(events) : \A i \in 1..Len(events[p]) :
          \E m \in models : m.fqid = events[p][i].fqid

MetaFieldsWitness ==
    /\ Len(events) = 3
    /\ events[2] = << Ev("update", "a", 1, {}) >>
    /\ events[3] = << Ev("delete", "a", 1, {}), Ev("create", "b", 1, {}) >>
    /\ Model(<<"a", 1>>, {<<"f", 1>>}, TRUE, 3) \in models
    /\ Model(<<"b", 1>>, {}, FALSE, 3) \in models
    /\ \E w \in last_write :
          Model(<<"a", 1>>, {<<"f", 1>>}, FALSE, 2) \in w.before

\* ----- C23 ----------------------------------------------------------------
\* the ids handed out for a collection by the first n calls
ReturnedIds(calls, n, collection) ==
    UNION {SeqRange(calls[j].ids) : j \in {k \in 1..n : calls[k].collection = collection}}

HighestReturned(calls, n, collection) ==
    IF ReturnedIds(calls, n, collection) = {} THEN 0
    ELSE MaxOf(ReturnedIds(calls, n, collection))

\* C23: every successful reservation returns the `amount` consecutive ids
\* right after the highest id returned before for its collection (1..amount
\* for the first one), the stored number of a collection is its highest
\* returned id + 1 whatever was reserved for other collections, and no id is
\* returned twice for a collection.
IdReservationSequence ==
    /\ \A i \in 1..Len(reserved) :
          reserved[i].err = "ok" =>
              reserved[i].ids =
                  [k \in 1..reserved[i].amount |->
                      HighestReturned(reserved, i - 1, reserved[i].collection) + k]
    /\ \A c \in Collections :
          IF ReturnedIds(reserved, Len(reserved), c) = {}
          THEN c \notin DOMAIN id_sequences
          ELSE /\ c \in DOMAIN id_sequences
               /\ id_sequences[c] = HighestReturned(reserved, Len(reserved), c) + 1
    /\ \A i, j \in 1..Len(reserved) :
          (i # j /\ reserved[i].collection = reserved[j].collection)
              => SeqRange(reserved[i].ids) \cap SeqRange(reserved[j].ids) = {}

IdReservationSequenceWitness ==
    /\ Len(reserved) = 3
    /\ reserved[1].collection = "a" /\ reserved[1].ids = << 1, 2 >>
    /\ reserved[2].collection = "b" /\ reserved[2].ids = << 1 >>
    /\ reserved[3].collection = "a" /\ reserved[3].ids = << 3, 4 >>
    /\ id_sequences["a"] = 5 /\ id_sequences["b"] = 2

\* ----- C24 ----------------------------------------------------------------
\* the step record i is the first one of its position in this run
FirstStep(i) == i = 1 \/ views[i - 1].position # views[i].position

\* C24: the first step of a position starts at migration_positions[P] when
\* that entry exists and at positions[P].migration_index otherwise, and reads
\* the staged events of P (in weight order) iff the entry exists, the live
\* events otherwise; every later step of the position starts at the index
\* the step before it produced and reads from staging exactly what that step
\* returned.
SourceIndexAndEvents ==
    \A i \in 1..Len(views) :
        LET v == views[i]
            P == v.position
        IN IF FirstStep(i)
           THEN /\ v.source_migration_index = EffectiveIndex(run_start.mp, P)
                /\ v.from_staging <=> P \in DOMAIN run_start.mp
                /\ v.old_events = IF P \in DOMAIN run_start.mp
                                  THEN StagedEvents(run_start.rows, P)
                                  ELSE events[P]
           ELSE /\ views[i - 1].ok
                /\ v.source_migration_index = views[i - 1].target_migration_index
                /\ v.from_staging
                /\ v.old_events = views[i - 1].new_events

SourceIndexAndEventsWitness ==
    /\ \E i \in 1..Len(views) :
          /\ FirstStep(i) /\ views[i].from_staging
          /\ views[i].old_events # events[views[i].position]
    /\ \E j \in 2..Len(views) :
          /\ ~FirstStep(j) /\ ~views[j - 1].from_staging
          /\ views[j].old_events # events[views[j].position]
          /\ views[j].new_events # views[j].old_events

\* ----- C25 ----------------------------------------------------------------
\* the steps of this run invoked for position P, in order
InvokedFor(P) == SelectSeq(invoked, LAMBDA e : e[1] = P)

\* the chain S+1, S+2, ..., T of position P
ChainOf(P, S, T) == [k \in 1..(IF T > S THEN T - S ELSE 0) |-> << P, S + k >>]

\* C25: a committed position with source index S was given exactly the steps
\* S+1, ..., T, each once and in ascending order, and no step when S >= T; a
\* position whose transaction raised was given a prefix of its chain; the
\* positions are processed in strictly ascending order, each at most once.
StepChainOrder ==
    /\ \A i \in 1..Len(processed) :
          InvokedFor(processed[i]) =
              ChainOf(processed[i], EffectiveIndex(run_start.mp, processed[i]),
                      target_migration_index)
    /\ \A P \in failed_at :
          LET chain == ChainOf(P, EffectiveIndex(run_start.mp, P), target_migration_index)
          IN /\ Len(InvokedFor(P)) <= Len(chain)
             /\ InvokedFor(P) = SubSeq(chain, 1, Len(InvokedFor(P)))
             /\ \A i \in 1..Len(processed) : processed[i] < P
    /\ \A i \in 1..Len(invoked) :
          invoked[i][1] \in SeqRange(processed) \cup failed_at
    /\ \A i, j \in 1..Len(processed) : i < j => processed[i] < processed[j]
    /\ \A i, j \in 1..Len(invoked) : i < j => invoked[i][1] <= invoked[j][1]

StepChainOrderWitness ==
    /\ \E i \in 1..Len(processed) :
          /\ processed[i] \in DOMAIN run_start.mp
          /\ run_start.mp[processed[i]] >= target_migration_index
          /\ InvokedFor(processed[i]) = << >>
    /\ \E i \in 1..Len(processed) :
          Len(InvokedFor(processed[i])) >= 2
    /\ Len(processed) = 3

\* ----- C26 ----------------------------------------------------------------
\* C26: a step s -> t whose result was diff-written moved its old accessor
\* exactly once and its new accessor iff t is the global target; a step that
\* raised moved neither; once the position is committed the keyframe of
\* every moved accessor is in the store.
AccessorAdvanceRule ==
    \A i \in 1..Len(views) :
        LET v == views[i]
            last == v.target_migration_index = target_migration_index
        IN /\ v.ok => v.moves = IF last THEN << "old", "new" >> ELSE << "old" >>
           /\ ~v.ok => v.moves = << >>
           /\ (v.ok /\ v.position \in SeqRange(processed)) =>
                 /\ StagedEvents(migration_events, v.position) =
                        views[CHOOSE j \in i..Len(views) :
                                 /\ views[j].position = v.position
                                 /\ views[j].target_migration_index =
                                        target_migration_index].new_events
                 /\ keyframe_at(migration_keyframes, v.position,
                                v.source_migration_index) # {}
                 /\ last => keyframe_at(migration_keyframes, v.position,
                                        v.target_migration_index) # {}

AccessorAdvanceRuleWitness ==
    \E i \in 2..Len(views) :
        /\ views[i].position = views[i - 1].position
        /\ views[i].position \in SeqRange(processed)
        /\ views[i - 1].ok /\ views[i - 1].moves = << "old" >>
        /\ views[i].ok /\ views[i].moves = << "old", "new" >>
        /\ views[i].new_events # << >>

\* ----- C27 ----------------------------------------------------------------
\* C27: after a position P was migrated through a chain S -> T with
\* T - S >= 2, the keyframe store holds no keyframe of P at an intermediate
\* index S+1..T-1.
KeyframeBound ==
    \A i \in 1..Len(processed) :
        LET P == processed[i]
            S == EffectiveIndex(run_start.mp, P)
        IN target_migration_index - S >= 2 =>
              \A k \in migration_keyframes :
                  k.position = P =>
                      k.migration_index \notin (S + 1)..(target_migration_index - 1)

\* ----- C28 ----------------------------------------------------------------
\* the step record is of a step that was given events and returned none
ReturnedEmpty(v) == v.ok /\ v.old_events # << >> /\ v.new_events = << >>

\* C28 as stated: a step that returns the empty list still moves both of its
\* accessors.
EmptyResultMovesBoth ==
    \A i \in 1..Len(views) :
        ReturnedEmpty(views[i]) => views[i].moves = << "old", "new" >>

\* C28: a step that returns the empty list moves its accessors like any
\* other step: the old accessor once, the new accessor iff the step is the
\* last of the chain; the keyframe the new accessor then commits for the
\* position is the view it started with, since no event was applied to it.
EmptyResultAdvance ==
    \A i \in 1..Len(views) :
        LET v == views[i]
            last == v.target_migration_index = target_migration_index
        IN ReturnedEmpty(v) =>
              /\ v.moves = IF last THEN << "old", "new" >> ELSE << "old" >>
              /\ (last /\ v.position \in SeqRange(processed)) =>
                    keyframe_at(migration_keyframes, v.position,
                                v.target_migration_index) =
                        {[position |-> v.position,
                          migration_index |-> v.target_migration_index,
                          models |-> v.new]}

EmptyResultAdvanceWitness ==
    \E i \in 1..Len(views) :
        /\ ReturnedEmpty(views[i])
        /\ views[i].target_migration_index = target_migration_index
        /\ views[i].position \in SeqRange(processed)
        /\ views[i].moves = << "old", "new" >>
        /\ views[i].new # {}

\* ----- C29 ----------------------------------------------------------------
\* the greatest position of the positions table below P, 0 without one
Predecessor(P) ==
    IF {q \in 1..Len(positions) : q < P} = {} THEN 0
    ELSE MaxOf({q \in 1..Len(positions) : q < P})

BoundTo(accessor, last, P, index) ==
    /\ accessor.last_position = last
    /\ accessor.position = P
    /\ accessor.migration_index = index
    /\ accessor.flavor = IF last = 0 THEN "Initial" ELSE "Database"

\* C29: both accessors of every step of a position P are bound to
\* last_position = the greatest position below P and to the current
\* position P, the old one at the step's source index and the new one at its
\* target index; they are Initial accessors iff no position precedes P; and
\* between two transactions the anchor is the position processed last.
AccessorBinding ==
    /\ \A i \in 1..Len(views) :
          LET v == views[i]
          IN /\ BoundTo(v.old_accessor, Predecessor(v.position), v.position,
                        v.source_migration_index)
             /\ BoundTo(v.new_accessor, Predecessor(v.position), v.position,
                        v.target_migration_index)
             /\ v.old_accessor.flavor = "Initial" <=> v.position = 1
    /\ (pc = "running" /\ processed # << >>) =>
          /\ last_position # NoValue
          /\ \A a \in last_position : a.position = processed[Len(processed)]
          /\ Head(todo).position = processed[Len(processed)] + 1

AccessorBindingWitness ==
    /\ pc = "running" /\ Len(processed) = 2 /\ processed[1] = 1
    /\ \E i, j \in 1..Len(views) :
          /\ views[i].position = 1 /\ views[i].old_accessor.flavor = "Initial"
          /\ views[j].position = 2 /\ views[j].new_accessor.flavor = "Database"
          /\ views[j].new_accessor.last_position = 1

\* ----- C30 ----------------------------------------------------------------
\* C30: in every committed state, a checkpoint migration_positions[P] = MI
\* comes with the staging rows of P being exactly, in weight order, the
\* events the steps up to MI make of the original events of P (possibly
\* none), with weights 1..n.
CheckpointInvariant ==
    \A P \in DOMAIN migration_positions :
        /\ StagedEvents(migration_events, P) =
               Image(events[P], positions[P], migration_positions[P])
        /\ {r.weight : r \in RowsAt(migration_events, P)} =
               1..Cardinality(RowsAt(migration_events, P))

CheckpointInvariantWitness ==
    /\ result = "killed"
    /\ series.killed /\ series.committed
    /\ \E P, Q \in DOMAIN migration_positions :
          /\ migration_positions[P] = 3 /\ migration_positions[Q] = 2
          /\ positions[P] = 1
          /\ StagedEvents(migration_events, P) = << >>
          /\ StagedEvents(migration_events, Q) # events[Q]
          /\ StagedEvents(migration_events, Q) # << >>

\* ----- C31 ----------------------------------------------------------------
NonRising == \A i \in 1..(Len(positions) - 1) : positions[i] >= positions[i + 1]

\* the precondition of the Finalizer for target T
FinalizerPrecondition(mp, T) ==
    /\ DOMAIN mp = 1..Len(positions)
    /\ \A p \in DOMAIN mp : mp[p] = T

\* C31: whenever migrate(T) returns true from a state in which the migration
\* index does not rise with the position, migration_positions has an entry
\* for every row of positions and every entry equals T, also when some older
\* positions were already at index T in the live log.
\* It is checked for datastores whose indices all lie in 1..T.
FinalizerReadiness ==
    (/\ Returned /\ result = "true" /\ NonRising
     /\ \A p \in 1..Len(positions) :
           positions[p] >= 1 /\ positions[p] <= target_migration_index) =>
        FinalizerPrecondition(migration_positions, target_migration_index)

\* ----- C32 ----------------------------------------------------------------
\* C32: no step of migrate, whatever row of the decision table it takes and
\* whether it succeeds, raises or is killed, inserts, updates or deletes a row
\* of the positions table, the live events table or the derived models table.
MigrateFrame ==
    [][Next => UNCHANGED << positions, events, models >>]_vars

\* a run has committed a position (staging rows, a checkpoint and a keyframe
\* are written) and a later transaction of it has raised
MigrateFrameWitness ==
    /\ Returned /\ failed_at # NoValue /\ processed # << >>
    /\ migration_events # {} /\ migration_positions # << >>
    /\ migration_keyframes # {}

\* ----- C33 ----------------------------------------------------------------
DistinctWeights(rows, position) ==
    \A r1, r2 \in RowsAt(rows, position) : r1.weight = r2.weight => r1 = r2

\* the staging table after each statement of the latest write_new_events
StatementsOf(w) ==
    write_new_events_statements(w.before, w.nid, w.new_events, w.position,
                                w.old_event_ids)

\* the statements of write_new_events end in the table the call leaves
StatementsReachResult ==
    \A w \in last_write :
        IF StatementsOf(w) = << >> THEN migration_events = w.before
        ELSE StatementsOf(w)[Len(StatementsOf(w))] = migration_events

\* C33: starting from staging rows of P with distinct weights, after each
\* single update, delete or insert statement of write_new_events no two
\* staging rows of P carry the same weight, for every order in which the id
\* query returns the ids of the existing rows.
WeightUniqueness ==
    \A w \in last_write :
        DistinctWeights(w.before, w.position) =>
            \A k \in DOMAIN StatementsOf(w) :
                DistinctWeights(StatementsOf(w)[k], w.position)

\* the same for the calls whose id query answered in weight order
WeightUniquenessInWeightOrder ==
    \A w \in last_write :
        (DistinctWeights(w.before, w.position) /\ InWeightOrder(w)) =>
            \A k \in DOMAIN StatementsOf(w) :
                DistinctWeights(StatementsOf(w)[k], w.position)

\* ----- C35 ----------------------------------------------------------------
\* the accepted events of a log in order, each with its position
RECURSIVE Stamped(_, _)
Stamped(log, p) ==
    IF p > Len(log) THEN << >>
    ELSE [i \in 1..Len(log[p]) |-> [position |-> p, event |-> log[p][i]]]
         \o Stamped(log, p + 1)

\* the models after the first k events of a stamped log
RECURSIVE ModelsAfter(_, _)
ModelsAfter(flat, k) ==
    IF k = 0 THEN {}
    ELSE apply_event(ModelsAfter(flat, k - 1), flat[k].event, flat[k].position).models

ModelOf(set, fqid) == CHOOSE m \in set : m.fqid = fqid

\* the Delete a Restore undoes: the latest Delete on its fqid before it
DeleteOf(flat, k) ==
    MaxOf({i \in 1..(k - 1) : /\ flat[i].event.fqid = flat[k].event.fqid
                              /\ flat[i].event.type = "delete"})

\* C35: for an existing model, Delete followed by Restore, in the same
\* position or in a later one and repeated any number of times, yields a
\* model whose non-meta fields equal those it had before the Delete, with
\* meta_deleted false and meta_position the position of the Restore; between
\* the Delete and the Restore the model is not visible as an existing model.
DeleteRestoreRoundTrip ==
    LET flat == Stamped(events, 1)
    IN /\ ModelsAfter(flat, Len(flat)) = models
       /\ \A k \in 1..Len(flat) :
            flat[k].event.type = "restore" =>
              LET fqid == flat[k].event.fqid
                  d == DeleteOf(flat, k)
                  before == ModelOf(ModelsAfter(flat, d - 1), fqid)
                  after == ModelOf(ModelsAfter(flat, k), fqid)
              IN /\ exists_query(ModelsAfter(flat, d - 1), fqid)
                 /\ after.fields = before.fields
                 /\ ~after.meta_deleted
                 /\ after.meta_position = flat[k].position
                 /\ exists_query(ModelsAfter(flat, k), fqid)
                 /\ \A i \in d..(k - 1) : ~exists_query(ModelsAfter(flat, i), fqid)

\* a model was deleted and restored twice: once with the Restore in a later
\* position than the Delete, once with both in one position
DeleteRestoreRoundTripWitness ==
    LET flat == Stamped(events, 1)
    IN /\ \E k \in 1..Len(flat) :
            /\ flat[k].event.type = "restore"
            /\ flat[DeleteOf(flat, k)].position < flat[k].position
       /\ \E k \in 1..Len(flat) :
            /\ flat[k].event.type = "restore"
            /\ flat[DeleteOf(flat, k)].position = flat[k].position
       /\ Model(<<"a", 1>>, {<<"f", 1>>}, FALSE, 3) \in models

\* ----- C36 ----------------------------------------------------------------
RejectedCall(call) == ~valid_reservation(call.collection, call.amount)

AcceptedCall(call) == valid_reservation(call.collection, call.amount)

\* the stored numbers right after call i
StoredAfter(i) == IF i < Len(reserved) THEN reserved[i + 1].before ELSE id_sequences

\* the ids a list of calls returns, one after the other from `sequences`
RECURSIVE IdsOf(_, _)
IdsOf(calls, sequences) ==
    IF calls = << >> THEN << >>
    ELSE LET out == reserve_next_ids(sequences, Head(calls).collection,
                                     Head(calls).amount)
         IN << out.ids >> \o IdsOf(Tail(calls), out.sequences)

LiveInit ==
    /\ Init
    /\ NonRising
    /\ \A p \in 1..Len(positions) : positions[p] >= 1

\* A step of position_transaction, told by what it does to todo and
\* failed_at: it commits the head of todo or raises at it.
transaction_step ==
    /\ pc = "running" /\ todo # << >>
    /\ \/ todo' = Tail(todo) /\ failed_at' = failed_at
       \/ todo' = todo /\ failed_at' = {Head(todo).position}

\* A step of migrate after a kill: the result is no longer "killed".
rerun_step == result = "killed" /\ result' = "none"

\* The operator calls migrate again after a kill, and the runs are not killed
\* every time: position transactions keep being executed.
LiveSpec ==
    /\ LiveInit /\ [][Next]_vars
    /\ WF_<< result >>(rerun_step)
    /\ SF_<< todo, failed_at >>(transaction_step)

\* migrate has raised
Raised == pc = "idle" /\ result \notin {"none", "true", "false", "killed"}

\* C34, progress: when a run of migrate(T) is under way, every position that
\* needs work (effective index below T) eventually stands at
\* migration_positions[P] = T, however often runs are killed between two
\* position transactions, unless migrate raises.
ProgressUnderInterruption ==
    \A P \in 1..MaxPositions :
        (pc = "running" /\ P \in NeedsWork(migration_positions, target_migration_index))
            ~> (Raised \/ P \notin NeedsWork(migration_positions, target_migration_index))

\* the steps invoked for position P among the step records `inv`
StepsOn(inv, P) == Len(SelectSeq(inv, LAMBDA e : e[1] = P))

\* C34, the committed positions: in a step of a run with target T a position
\* already standing at migration_positions[P] = T is given no migration step
\* and keeps that entry.
CommittedPositionsStay ==
    [][\A P \in DOMAIN migration_positions :
          migration_positions[P] = target_migration_index' =>
              /\ P \in DOMAIN migration_positions'
              /\ migration_positions'[P] = target_migration_index'
              /\ StepsOn(invoked', P) <= StepsOn(invoked, P)]_vars

\* a killed run was rerun with the same target and has committed a position
\* behind the ones the killed run had committed
CommittedPositionsStayWitness ==
    /\ series.killed /\ series.committed
    /\ processed # << >>
    /\ \E P \in DOMAIN run_start.mp :
          /\ run_start.mp[P] = target_migration_index
          /\ P < processed[1]

====
